---- MODULE Spec2Model ----
(***************************************************************************)
(* A model of saltpack.js: the encryption / decryption operations of       *)
(* src/src/encryption.ts, the attached signing / verification operations   *)
(* of the signing module (src/unnamed/part_003) and the ASCII armor codec  *)
(* (src/unnamed/part_002).                                                 *)
(*                                                                         *)
(* The NaCl primitives are modelled symbolically: a box, a secretbox and a *)
(* detached signature are records that remember what was sealed, under     *)
(* which nonce and under which key, and opening succeeds exactly when      *)
(* nonce and key agree.  The msgpack codec is modelled at the level of its *)
(* tokens: encode flattens a value into array headers and scalars,         *)
(* decodeMulti reads the token stream back one top-level value at a time.  *)
(***************************************************************************)
EXTENDS Integers, Sequences, FiniteSets, TLC

VARIABLES
  op,        \* which writer produced the message: "none", "enc" or "sig"
  input,     \* the arguments of that encrypt / sign call
  wire,      \* the byte stream (token stream) handed to the reader
  tamper,    \* what was done to the stream after it was written
  dec,       \* the decrypt call: position and locals
  ver,       \* the verify call: position and locals
  arm,       \* the armor / dearmor run
  cli,       \* the command line: the invocation and what it has written
  call,      \* a call of a helper function: its arguments and what it returned
  ops        \* decrypt / verify calls in flight together, each with its locals

vars == <<op, input, wire, tamper, dec, ver, arm, cli, call, ops>>

(***************************************************************************)
(* Bounds                                                                  *)
(***************************************************************************)
\* CHUNK_SIZE stands for the source's 1024 * 1024 (encryption.ts:13,
\* signing:13), scaled down so that chunk boundaries are reachable.
CHUNK_SIZE == 2
\* longest plaintext / message
MaxLen == 6
\* longest recipient list
MaxRecipients == 3
\* longest byte string given to armor
MaxArmorLen == 66
\* length of a public key, a secret key and a payload key: stands for the
\* 32 bytes of a NaCl key
KeyLen == 2
\* length of the header nonce of a signed message: stands for the 32 bytes
\* of nacl.randomBytes(32)
NonceLen == 2

(***************************************************************************)
(* Small helpers                                                           *)
(***************************************************************************)
Range(s) == {s[i] : i \in DOMAIN s}

Min(a, b) == IF a < b THEN a ELSE b

RECURSIVE Concat(_)
Concat(ss) == IF ss = <<>> THEN <<>> ELSE Head(ss) \o Concat(Tail(ss))

Null == [t |-> "null"]
\* JavaScript's undefined, where a byte string is expected
undefined == <<-1>>

\* plaintexts of every length up to MaxLen: one whose bytes are all equal (so
\* that full chunks are equal) and one whose bytes are all different
Plaintexts ==
  {[i \in 1..n |-> 7] : n \in 0..MaxLen} \cup {[i \in 1..n |-> i] : n \in 1..MaxLen}

(***************************************************************************)
(* Keys (tweetnacl key pairs).  A secret key determines its public key.    *)
(***************************************************************************)
PublicOf(secretKey) == [i \in DOMAIN secretKey |-> secretKey[i] - 100]

KeyPairOf(publicKey) ==
  [publicKey |-> publicKey,
   secretKey |-> [i \in DOMAIN publicKey |-> publicKey[i] + 100]]

\* key pairs of callers; the public keys differ from the first one in the
\* last byte only, respectively in the first byte only
PublicKeys ==
  {[i \in 1..KeyLen |-> 1],
   [i \in 1..KeyLen |-> IF i = KeyLen THEN 2 ELSE 1],
   [i \in 1..KeyLen |-> IF i = 1 THEN 2 ELSE 1]}
KeyPairs == {KeyPairOf(pk) : pk \in PublicKeys}

\* new Uint8Array(32): a zeroed buffer of the length of a key
ZeroKey == [i \in 1..KeyLen |-> 0]

\* the ephemeral key pair and the payload key drawn by encrypt
EphemeralKeyPairs == {KeyPairOf([i \in 1..KeyLen |-> 3])}
PayloadKeys == {[i \in 1..KeyLen |-> 40 + i]}
\* the header nonce drawn by sign
HeaderNonces == {[i \in 1..NonceLen |-> 50 + i]}

(***************************************************************************)
(* NaCl primitives                                                         *)
(***************************************************************************)
Raw(bytes) == [c |-> "raw", m |-> bytes]

\* the shared key of nacl.box: the same for (skA, pkB) and (skB, pkA)
SharedKey(secretKey, publicKey) == {PublicOf(secretKey), publicKey}

box(msg, nonce, theirPk, mySk) ==
  [c |-> "box", k |-> SharedKey(mySk, theirPk), m |-> msg, n |-> nonce]

box_open(x, nonce, theirPk, mySk) ==
  IF x.c = "box" /\ x.n = nonce /\ x.k = SharedKey(mySk, theirPk)
  THEN [ok |-> TRUE, m |-> x.m]
  ELSE [ok |-> FALSE, m |-> <<>>]

secretbox(msg, nonce, key) ==
  [c |-> "sbox", k |-> key, m |-> msg, n |-> nonce]

\* secretbox_open that does not look at the nonce
secretbox_open_anyNonce(x, nonce, key) ==
  IF x.c = "sbox" /\ x.k = key
  THEN [ok |-> TRUE, m |-> x.m]
  ELSE [ok |-> FALSE, m |-> <<>>]

secretbox_open(x, nonce, key) ==
  IF x.c = "sbox" /\ x.n = nonce /\ x.k = key
  THEN [ok |-> TRUE, m |-> x.m]
  ELSE [ok |-> FALSE, m |-> <<>>]

sign_detached(msg, secretKey) ==
  [c |-> "sig", k |-> PublicOf(secretKey), m |-> msg]

sign_detached_verify(msg, sig, publicKey) ==
  sig.c = "sig" /\ sig.k = publicKey /\ sig.m = msg

\* nacl.hash(...).slice(0, 32): collision free
hash(bytes) == [c |-> "hash", m |-> bytes]

(***************************************************************************)
(* msgpack: values, tokens, encode and decodeMulti                         *)
(***************************************************************************)
VStr(s) == [t |-> "str", s |-> s]
VInt(n) == [t |-> "int", n |-> n]
VBin(x) == [t |-> "bin", b |-> x]
VArr(e) == [t |-> "arr", e |-> e]
Undef == [t |-> "undef"]

\* tokens on the wire; w is the width class of the encoding, 0 = shortest
KInt(n, w) == [t |-> "int", n |-> n, w |-> w]
KArr(n, w) == [t |-> "arr", n |-> n, w |-> w]

RECURSIVE encode(_)
encode(v) ==
  IF v.t = "arr"
  THEN <<KArr(Len(v.e), 0)>> \o Concat([i \in 1..Len(v.e) |-> encode(v.e[i])])
  ELSE IF v.t = "int" THEN <<KInt(v.n, 0)>>
  ELSE <<v>>

\* decode one value that starts at token pos; ok = FALSE when the data ends
\* inside the value (the decoder throws)
RECURSIVE decodeAt(_, _)
RECURSIVE decodeElems(_, _, _, _)
decodeAt(data, pos) ==
  IF pos > Len(data) THEN [ok |-> FALSE, val |-> Undef, next |-> pos]
  ELSE LET k == data[pos] IN
    IF k.t = "arr"
    THEN LET r == decodeElems(data, pos + 1, k.n, <<>>) IN
         [ok |-> r.ok, val |-> VArr(r.vals), next |-> r.next]
    ELSE IF k.t = "int"
    THEN [ok |-> TRUE, val |-> VInt(k.n), next |-> pos + 1]
    ELSE [ok |-> TRUE, val |-> k, next |-> pos + 1]

decodeElems(data, pos, n, acc) ==
  IF n = 0 THEN [ok |-> TRUE, vals |-> acc, next |-> pos]
  ELSE LET r == decodeAt(data, pos) IN
    IF ~r.ok THEN [ok |-> FALSE, vals |-> acc, next |-> pos]
    ELSE decodeElems(data, r.next, n - 1, Append(acc, r.val))

\* generator.next() of decodeMulti(data) with the generator at token pos
generator_next(data, pos) ==
  IF pos > Len(data)
  THEN [done |-> TRUE, threw |-> FALSE, value |-> Undef, pos |-> pos]
  ELSE LET r == decodeAt(data, pos) IN
    [done |-> FALSE, threw |-> ~r.ok, value |-> r.val, pos |-> r.next]

IsArray(v) == v.t = "arr"

\* v[i] of a decoded array, i counted from 0
At(v, i) == IF i + 1 <= Len(v.e) THEN v.e[i + 1] ELSE Undef

(***************************************************************************)
(* Nonces                                                                  *)
(***************************************************************************)
\* "saltpack_recipsb", "saltpack_sender_", "saltpack_ploadsb" in ASCII
NONCE_PREFIX_RECIPS ==
  <<115, 97, 108, 116, 112, 97, 99, 107, 95, 114, 101, 99, 105, 112, 115, 98>>
NONCE_PREFIX_SENDER ==
  <<115, 97, 108, 116, 112, 97, 99, 107, 95, 115, 101, 110, 100, 101, 114, 95>>
NONCE_PREFIX_PAYLOAD ==
  <<115, 97, 108, 116, 112, 97, 99, 107, 95, 112, 108, 111, 97, 100, 115, 98>>

\* index shifted right by k bytes
RECURSIVE ShiftBytes(_, _)
ShiftBytes(index, k) == IF k = 0 THEN index ELSE ShiftBytes(index \div 256, k - 1)

\* setBigUint64(.., index, false): 8 bytes, big endian
be64(index) == [i \in 1..8 |-> ShiftBytes(index, 8 - i) % 256]

\* makeNonce with the counter left at zero
makeNonce_noCounter(prefix, index) ==
  [i \in 1..24 |->
     IF i > 16 THEN 0
     ELSE IF i <= Len(prefix) THEN prefix[i] ELSE 0]

\* makeNonce with the counter written little endian
makeNonce_littleEndian(prefix, index) ==
  [i \in 1..24 |->
     IF i > 16 THEN be64(index)[25 - i]
     ELSE IF i <= Len(prefix) THEN prefix[i] ELSE 0]

\* makeNonce that copies 15 bytes of the prefix
makeNonce_shortPrefix(prefix, index) ==
  [i \in 1..24 |->
     IF i > 16 THEN be64(index)[i - 16]
     ELSE IF i <= Len(prefix) /\ i < 16 THEN prefix[i] ELSE 0]

makeNonce(prefix, index) ==
  [i \in 1..24 |->
     IF i > 16 THEN be64(index)[i - 16]
     ELSE IF i <= Len(prefix) THEN prefix[i] ELSE 0]

(***************************************************************************)
(* encrypt (src/src/encryption.ts)                                         *)
(***************************************************************************)
\* the chunk loop without packetIndex++
RECURSIVE encryptLoop_sameIndex(_, _, _, _, _)
encryptLoop_sameIndex(plaintext, i, packetIndex, payloadKey, chunks) ==
  IF i < Len(plaintext)
  THEN LET chunkPlaintext ==
             SubSeq(plaintext, i + 1, Min(i + CHUNK_SIZE, Len(plaintext)))
           nonce == makeNonce(NONCE_PREFIX_PAYLOAD, packetIndex)
           chunkCiphertext == secretbox(chunkPlaintext, nonce, payloadKey)
           packet == encode(VArr(<<VBin(chunkCiphertext)>>))
       IN encryptLoop_sameIndex(plaintext, i + CHUNK_SIZE, packetIndex,
                                payloadKey, Append(chunks, packet))
  ELSE [chunks |-> chunks, packetIndex |-> packetIndex]

\* the chunk loop with subarray(i), every chunk running to the end
RECURSIVE encryptLoop_openSlice(_, _, _, _, _)
encryptLoop_openSlice(plaintext, i, packetIndex, payloadKey, chunks) ==
  IF i < Len(plaintext)
  THEN LET chunkPlaintext == SubSeq(plaintext, i + 1, Len(plaintext))
           nonce == makeNonce(NONCE_PREFIX_PAYLOAD, packetIndex)
           chunkCiphertext == secretbox(chunkPlaintext, nonce, payloadKey)
           packet == encode(VArr(<<VBin(chunkCiphertext)>>))
       IN encryptLoop_openSlice(plaintext, i + CHUNK_SIZE, packetIndex + 1,
                                payloadKey, Append(chunks, packet))
  ELSE [chunks |-> chunks, packetIndex |-> packetIndex]

\* the chunk loop: i is the byte offset, chunks the packets pushed so far
RECURSIVE encryptLoop(_, _, _, _, _)
encryptLoop(plaintext, i, packetIndex, payloadKey, chunks) ==
  IF i < Len(plaintext)
  THEN LET chunkPlaintext ==
             SubSeq(plaintext, i + 1, Min(i + CHUNK_SIZE, Len(plaintext)))
           nonce == makeNonce(NONCE_PREFIX_PAYLOAD, packetIndex)
           chunkCiphertext == secretbox(chunkPlaintext, nonce, payloadKey)
           packet == encode(VArr(<<VBin(chunkCiphertext)>>))
       IN encryptLoop(plaintext, i + CHUNK_SIZE, packetIndex + 1, payloadKey,
                      Append(chunks, packet))
  ELSE [chunks |-> chunks, packetIndex |-> packetIndex]

\* the header with every recipient box sealed under the nonce of position 0
encryptHeader_recipNonceZero(senderKeyPair, recipientPublicKeys, payloadKey, ephemeralKeyPair) ==
  LET recipientPairs ==
        [i \in 1..Len(recipientPublicKeys) |->
           VArr(<<VBin(Raw(recipientPublicKeys[i])),
                  VBin(box(payloadKey, makeNonce(NONCE_PREFIX_RECIPS, 0),
                           recipientPublicKeys[i], ephemeralKeyPair.secretKey))>>)]
      senderSecretboxNonce == makeNonce(NONCE_PREFIX_SENDER, 0)
      senderPkToEncrypt ==
        IF senderKeyPair # Null THEN senderKeyPair.publicKey
        ELSE ZeroKey
      senderSecretbox ==
        secretbox(senderPkToEncrypt, senderSecretboxNonce, payloadKey)
  IN VArr(<<VStr("saltpack"), VArr(<<VInt(2), VInt(0)>>), VInt(0),
            VBin(Raw(ephemeralKeyPair.publicKey)), VBin(senderSecretbox),
            VArr(recipientPairs)>>)

encryptHeader(senderKeyPair, recipientPublicKeys, payloadKey, ephemeralKeyPair) ==
  LET recipientPairs ==
        [i \in 1..Len(recipientPublicKeys) |->
           VArr(<<VBin(Raw(recipientPublicKeys[i])),
                  VBin(box(payloadKey, makeNonce(NONCE_PREFIX_RECIPS, i - 1),
                           recipientPublicKeys[i], ephemeralKeyPair.secretKey))>>)]
      senderSecretboxNonce == makeNonce(NONCE_PREFIX_SENDER, 0)
      senderPkToEncrypt ==
        IF senderKeyPair # Null THEN senderKeyPair.publicKey
        ELSE ZeroKey
      senderSecretbox ==
        secretbox(senderPkToEncrypt, senderSecretboxNonce, payloadKey)
  IN VArr(<<VStr("saltpack"), VArr(<<VInt(2), VInt(0)>>), VInt(0),
            VBin(Raw(ephemeralKeyPair.publicKey)), VBin(senderSecretbox),
            VArr(recipientPairs)>>)

\* encrypt with the terminator packet appended only after a plaintext that
\* ends on a chunk boundary
encrypt_terminatorOnBoundary(plaintext, senderKeyPair, recipientPublicKeys, payloadKey, ephemeralKeyPair) ==
  IF Len(recipientPublicKeys) = 0
  THEN [error |-> "At least one recipient public key is required",
        chunks |-> <<>>]
  ELSE LET headerBytes == encode(encryptHeader(senderKeyPair,
                             recipientPublicKeys, payloadKey, ephemeralKeyPair))
           loop == encryptLoop(plaintext, 0, 0, payloadKey, <<headerBytes>>)
           nonce == makeNonce(NONCE_PREFIX_PAYLOAD, loop.packetIndex)
           emptyCiphertext == secretbox(<<>>, nonce, payloadKey)
       IN [error |-> "",
           chunks |-> IF Len(plaintext) % CHUNK_SIZE = 0
                      THEN Append(loop.chunks,
                                  encode(VArr(<<VBin(emptyCiphertext)>>)))
                      ELSE loop.chunks]

\* encrypt without the check of the recipient list
encrypt_noRecipientCheck(plaintext, senderKeyPair, recipientPublicKeys, payloadKey, ephemeralKeyPair) ==
  LET headerBytes == encode(encryptHeader(senderKeyPair,
                        recipientPublicKeys, payloadKey, ephemeralKeyPair))
      loop == encryptLoop(plaintext, 0, 0, payloadKey, <<headerBytes>>)
      nonce == makeNonce(NONCE_PREFIX_PAYLOAD, loop.packetIndex)
      emptyCiphertext == secretbox(<<>>, nonce, payloadKey)
  IN [error |-> "",
      chunks |-> Append(loop.chunks,
                        encode(VArr(<<VBin(emptyCiphertext)>>)))]

\* the whole of encrypt without the armor option: the list of byte chunks
\* it concatenates (header first), or the error it throws
encrypt(plaintext, senderKeyPair, recipientPublicKeys, payloadKey, ephemeralKeyPair) ==
  IF Len(recipientPublicKeys) = 0
  THEN [error |-> "At least one recipient public key is required",
        chunks |-> <<>>]
  ELSE LET headerBytes == encode(encryptHeader(senderKeyPair,
                             recipientPublicKeys, payloadKey, ephemeralKeyPair))
           loop == encryptLoop(plaintext, 0, 0, payloadKey, <<headerBytes>>)
           nonce == makeNonce(NONCE_PREFIX_PAYLOAD, loop.packetIndex)
           emptyCiphertext == secretbox(<<>>, nonce, payloadKey)
       IN [error |-> "",
           chunks |-> Append(loop.chunks,
                             encode(VArr(<<VBin(emptyCiphertext)>>)))]

(***************************************************************************)
(* decrypt (src/src/encryption.ts)                                         *)
(***************************************************************************)
\* the comparison of a recipient public key with the caller's public key
keyMatchBreak(recipientPk, publicKey) ==
  /\ Len(recipientPk) = Len(publicKey)
  /\ \A k \in 1..Len(recipientPk) : recipientPk[k] = publicKey[k]

\* the loop over the recipient pairs with the counter advanced only on the
\* entries that were tried
RECURSIVE findPayloadKey_indexOnMatch(_, _, _, _, _)
findPayloadKey_indexOnMatch(recipientPairs, index, recipientKeyPair, ephemeralPk, opens) ==
  IF index >= Len(recipientPairs.e)
  THEN [threw |-> FALSE, found |-> FALSE, payloadKey |-> <<>>, opens |-> opens]
  ELSE
    LET pair == recipientPairs.e[index + 1]
        recipientPk == IF IsArray(pair) THEN At(pair, 0) ELSE Undef
        payloadKeyBox == IF IsArray(pair) THEN At(pair, 1) ELSE Undef
        match == /\ recipientPk.t = "bin"
                 /\ recipientPk.b.c = "raw"
                 /\ keyMatchBreak(recipientPk.b.m, recipientKeyPair.publicKey)
        nonce == makeNonce(NONCE_PREFIX_RECIPS, opens)
        decrypted == box_open(payloadKeyBox.b, nonce, ephemeralPk.b.m,
                              recipientKeyPair.secretKey)
    IN IF ~IsArray(pair) \/ recipientPk.t \in {"undef", "nil"}
       THEN [threw |-> TRUE, found |-> FALSE, payloadKey |-> <<>>,
             opens |-> opens]
       ELSE IF match
       THEN IF \/ payloadKeyBox.t # "bin"
               \/ ephemeralPk.t # "bin"
               \/ ephemeralPk.b.c # "raw"
            THEN [threw |-> TRUE, found |-> FALSE, payloadKey |-> <<>>,
                  opens |-> opens]
            ELSE IF decrypted.ok
            THEN [threw |-> FALSE, found |-> TRUE, payloadKey |-> decrypted.m,
                  opens |-> opens + 1]
            ELSE findPayloadKey_indexOnMatch(recipientPairs, index + 1,
                                             recipientKeyPair, ephemeralPk,
                                             opens + 1)
       ELSE findPayloadKey_indexOnMatch(recipientPairs, index + 1,
                                        recipientKeyPair, ephemeralPk, opens)

\* the loop over the recipient pairs, from list position index on
RECURSIVE findPayloadKey(_, _, _, _, _)
findPayloadKey(recipientPairs, index, recipientKeyPair, ephemeralPk, opens) ==
  IF index >= Len(recipientPairs.e)
  THEN [threw |-> FALSE, found |-> FALSE, payloadKey |-> <<>>, opens |-> opens]
  ELSE
    LET pair == recipientPairs.e[index + 1]
        recipientPk == IF IsArray(pair) THEN At(pair, 0) ELSE Undef
        payloadKeyBox == IF IsArray(pair) THEN At(pair, 1) ELSE Undef
        match == /\ recipientPk.t = "bin"
                 /\ recipientPk.b.c = "raw"
                 /\ keyMatchBreak(recipientPk.b.m, recipientKeyPair.publicKey)
        nonce == makeNonce(NONCE_PREFIX_RECIPS, index)
        decrypted == box_open(payloadKeyBox.b, nonce, ephemeralPk.b.m,
                              recipientKeyPair.secretKey)
    IN IF ~IsArray(pair) \/ recipientPk.t \in {"undef", "nil"}
       THEN [threw |-> TRUE, found |-> FALSE, payloadKey |-> <<>>,
             opens |-> opens]
       ELSE IF match
       THEN IF \/ payloadKeyBox.t # "bin"
               \/ ephemeralPk.t # "bin"
               \/ ephemeralPk.b.c # "raw"
            THEN [threw |-> TRUE, found |-> FALSE, payloadKey |-> <<>>,
                  opens |-> opens]
            ELSE IF decrypted.ok
            THEN [threw |-> FALSE, found |-> TRUE, payloadKey |-> decrypted.m,
                  opens |-> opens + 1]
            ELSE findPayloadKey(recipientPairs, index + 1, recipientKeyPair,
                                ephemeralPk, opens + 1)
       ELSE findPayloadKey(recipientPairs, index + 1, recipientKeyPair,
                           ephemeralPk, opens)

\* the payloadKey check that is never taken
payloadKeyIsNull_never(found) == FALSE

\* if (!payloadKey) after the loop over the recipient pairs
payloadKeyIsNull(found) == ~found.found

\* version[0] !== 2 for a decoded version element
versionMajorIs2(version) ==
  IF IsArray(version)
  THEN At(version, 0).t = "int" /\ At(version, 0).n = 2
  ELSE /\ version.t = "bin"
       /\ version.b.c = "raw"
       /\ Len(version.b.m) > 0
       /\ version.b.m[1] = 2

\* isAnon left false whatever the bytes are
isAnon_never(senderPkDecrypted) == FALSE

\* the loop that clears isAnon at the first byte that is not zero
isAnon(senderPkDecrypted) ==
  \A k \in 1..Len(senderPkDecrypted) : senderPkDecrypted[k] = 0

\* decrypt from its entry to the first payload packet: the header is read,
\* validated, the payload key is looked for and the sender secretbox opened
decryptHeader(data, recipientKeyPair) ==
  LET headerResult == generator_next(data, 1)
      header == headerResult.value
      version == At(header, 1)
      mode == At(header, 2)
      ephemeralPk == At(header, 3)
      senderSecretbox == At(header, 4)
      recipientPairs == At(header, 5)
      found == findPayloadKey(recipientPairs, 0, recipientKeyPair,
                              ephemeralPk, 0)
      senderNonce == makeNonce(NONCE_PREFIX_SENDER, 0)
      senderPkDecrypted ==
        secretbox_open(senderSecretbox.b, senderNonce, found.payloadKey)
      fail(msg, opens) ==
        [error |-> msg, pos |-> headerResult.pos, payloadKey |-> <<>>,
         senderPublicKey |-> undefined, boxOpens |-> opens, senderOpens |-> 0]
  IN
  IF headerResult.done THEN fail("Empty message", 0)
  ELSE IF headerResult.threw THEN fail("RangeError", 0)
  ELSE IF ~IsArray(header) THEN fail("Invalid saltpack header", 0)
  ELSE IF ~(At(header, 0).t = "str" /\ At(header, 0).s = "saltpack")
  THEN fail("Invalid saltpack header", 0)
  ELSE IF version.t \in {"undef", "nil"} THEN fail("TypeError", 0)
  ELSE IF ~versionMajorIs2(version) THEN fail("Unsupported version", 0)
  ELSE IF ~(mode.t = "int" /\ mode.n = 0) THEN fail("Unsupported mode", 0)
  ELSE IF ~IsArray(recipientPairs) THEN fail("TypeError", 0)
  ELSE IF found.threw THEN fail("TypeError", found.opens)
  ELSE IF payloadKeyIsNull(found)
  THEN fail("Could not decrypt payload key", found.opens)
  ELSE IF senderSecretbox.t # "bin" THEN fail("TypeError", found.opens)
  ELSE IF ~senderPkDecrypted.ok
  THEN [fail("Failed to decrypt sender public key", found.opens)
          EXCEPT !.senderOpens = 1]
  ELSE [error |-> "", pos |-> headerResult.pos,
        payloadKey |-> found.payloadKey,
        senderPublicKey |-> IF isAnon(senderPkDecrypted.m) THEN undefined
                            ELSE senderPkDecrypted.m,
        boxOpens |-> found.opens, senderOpens |-> 1]

(***************************************************************************)
(* sign (signing module)                                                   *)
(***************************************************************************)
\* computeSignature with the final flag byte always 0
computeSignature_neverFinal(secretKey, headerHash, nonce, packetIndex, isFinal, chunk) ==
  LET indexBytes == be64(packetIndex)
      finalByte == <<0>>
      signInput == [hh |-> headerHash,
                    rest |-> nonce \o indexBytes \o finalByte \o chunk]
  IN sign_detached(signInput, secretKey)

computeSignature(secretKey, headerHash, nonce, packetIndex, isFinal, chunk) ==
  LET indexBytes == be64(packetIndex)
      finalByte == <<IF isFinal THEN 1 ELSE 0>>
      signInput == [hh |-> headerHash,
                    rest |-> nonce \o indexBytes \o finalByte \o chunk]
  IN sign_detached(signInput, secretKey)

\* the chunk loop with the last data packet signed as the final one
RECURSIVE signLoop_lastDataIsFinal(_, _, _, _, _, _, _)
signLoop_lastDataIsFinal(message, i, packetIndex, secretKey, headerHash, headerNonce, packets) ==
  IF i < Len(message)
  THEN LET chunk == SubSeq(message, i + 1, Min(i + CHUNK_SIZE, Len(message)))
           isFinal == i + CHUNK_SIZE >= Len(message)
           signature == computeSignature(secretKey, headerHash, headerNonce,
                                         packetIndex, isFinal, chunk)
           packet == encode(VArr(<<VBin(signature), VBin(Raw(chunk))>>))
       IN signLoop_lastDataIsFinal(message, i + CHUNK_SIZE, packetIndex + 1,
                                   secretKey, headerHash, headerNonce,
                                   Append(packets, packet))
  ELSE [packets |-> packets, packetIndex |-> packetIndex]

RECURSIVE signLoop(_, _, _, _, _, _, _)
signLoop(message, i, packetIndex, secretKey, headerHash, headerNonce, packets) ==
  IF i < Len(message)
  THEN LET chunk == SubSeq(message, i + 1, Min(i + CHUNK_SIZE, Len(message)))
           isFinal == FALSE
           signature == computeSignature(secretKey, headerHash, headerNonce,
                                         packetIndex, isFinal, chunk)
           packet == encode(VArr(<<VBin(signature), VBin(Raw(chunk))>>))
       IN signLoop(message, i + CHUNK_SIZE, packetIndex + 1, secretKey,
                   headerHash, headerNonce, Append(packets, packet))
  ELSE [packets |-> packets, packetIndex |-> packetIndex]

\* sign with the header serialized a second time, in another form, for the
\* hash
sign_headerHashedApart(message, signingKeyPair, headerNonce) ==
  LET header == VArr(<<VStr("saltpack"), VArr(<<VInt(2), VInt(0)>>), VInt(1),
                       VBin(Raw(signingKeyPair.publicKey)),
                       VBin(Raw(headerNonce))>>)
      headerBytes == encode(header)
      headerHash == hash([encode(header) EXCEPT ![1].w = 1])
      loop == signLoop(message, 0, 0, signingKeyPair.secretKey, headerHash,
                       headerNonce, <<headerBytes>>)
      emptyChunk == <<>>
      signature == computeSignature(signingKeyPair.secretKey, headerHash,
                                    headerNonce, loop.packetIndex, TRUE,
                                    emptyChunk)
  IN Append(loop.packets, encode(VArr(<<VBin(signature), VBin(Raw(emptyChunk))>>)))

\* the whole of sign: the list of byte chunks it concatenates
sign(message, signingKeyPair, headerNonce) ==
  LET header == VArr(<<VStr("saltpack"), VArr(<<VInt(2), VInt(0)>>), VInt(1),
                       VBin(Raw(signingKeyPair.publicKey)),
                       VBin(Raw(headerNonce))>>)
      headerBytes == encode(header)
      headerHash == hash(headerBytes)
      loop == signLoop(message, 0, 0, signingKeyPair.secretKey, headerHash,
                       headerNonce, <<headerBytes>>)
      emptyChunk == <<>>
      signature == computeSignature(signingKeyPair.secretKey, headerHash,
                                    headerNonce, loop.packetIndex, TRUE,
                                    emptyChunk)
  IN Append(loop.packets, encode(VArr(<<VBin(signature), VBin(Raw(emptyChunk))>>)))

(***************************************************************************)
(* verify (signing module)                                                 *)
(***************************************************************************)
\* keyMatch without the comparison of the lengths
keyMatch_noLength(senderPk, signerPublicKey) ==
  \A i \in 1..Min(Len(senderPk), Len(signerPublicKey)) :
    senderPk[i] = signerPublicKey[i]

\* the comparison of the header's signer key with the expected key
keyMatch(senderPk, signerPublicKey) ==
  /\ Len(senderPk) = Len(signerPublicKey)
  /\ \A i \in 1..Len(senderPk) : senderPk[i] = signerPublicKey[i]

\* verify from its entry to the first payload packet
verifyHeader(signedMessage, signerPublicKey) ==
  LET headerResult == generator_next(signedMessage, 1)
      header == headerResult.value
      version == At(header, 1)
      mode == At(header, 2)
      senderPk == At(header, 3)
      headerNonce == At(header, 4)
      headerBytes == encode(header)
      fail(msg) ==
        [error |-> msg, pos |-> headerResult.pos, senderPk |-> Undef,
         headerNonce |-> Undef, headerHash |-> Null]
  IN
  IF headerResult.done THEN fail("Empty message")
  ELSE IF headerResult.threw THEN fail("RangeError")
  ELSE IF ~IsArray(header) THEN fail("Invalid header")
  ELSE IF ~(At(header, 0).t = "str" /\ At(header, 0).s = "saltpack")
  THEN fail("Invalid header")
  ELSE IF version.t \in {"undef", "nil"} THEN fail("TypeError")
  ELSE IF ~versionMajorIs2(version) THEN fail("Unsupported version")
  ELSE IF ~(mode.t = "int" /\ mode.n = 1)
  THEN fail("Unsupported mode (expected attached signing)")
  ELSE IF senderPk.t \in {"undef", "nil"} THEN fail("TypeError")
  ELSE IF ~(/\ senderPk.t = "bin"
            /\ senderPk.b.c = "raw"
            /\ keyMatch(senderPk.b.m, signerPublicKey))
  THEN fail("Sender public key in header does not match expected key")
  ELSE [error |-> "", pos |-> headerResult.pos, senderPk |-> senderPk,
        headerNonce |-> headerNonce, headerHash |-> hash(headerBytes)]

\* buf with arr copied in at byte offset off (TypedArray.prototype.set)
setAt(buf, arr, off) ==
  [i \in DOMAIN buf |->
     IF i > off /\ i <= off + Len(arr) THEN arr[i - off] ELSE buf[i]]

\* the signing input rebuilt with the final flag never inferred
verifySignInput_finalNever(headerHash, headerNonce, packetIndex, chunk) ==
  LET isFinal == FALSE
      indexBytes == be64(packetIndex)
      finalByte == <<IF isFinal THEN 1 ELSE 0>>
      zeros == [i \in 1..(NonceLen + 8 + 1 + Len(chunk)) |-> 0]
  IN [hh |-> headerHash,
      rest |-> setAt(setAt(setAt(setAt(zeros, headerNonce, 0),
                                 indexBytes, NonceLen),
                           finalByte, NonceLen + 8),
                     chunk, NonceLen + 9)]

\* the signing input verify rebuilds for a packet, laid out at the fixed
\* offsets of a header nonce of NonceLen bytes
verifySignInput(headerHash, headerNonce, packetIndex, chunk) ==
  LET isFinal == Len(chunk) = 0
      indexBytes == be64(packetIndex)
      finalByte == <<IF isFinal THEN 1 ELSE 0>>
      zeros == [i \in 1..(NonceLen + 8 + 1 + Len(chunk)) |-> 0]
  IN [hh |-> headerHash,
      rest |-> setAt(setAt(setAt(setAt(zeros, headerNonce, 0),
                                 indexBytes, NonceLen),
                           finalByte, NonceLen + 8),
                     chunk, NonceLen + 9)]

(***************************************************************************)
(* ASCII armor (armor module).  A string is a sequence of characters.      *)
(***************************************************************************)
ARMOR_HEADER_ENCRYPTION ==
  <<"B", "E", "G", "I", "N", " ", "S", "A", "L", "T", "P", "A", "C", "K",
    " ", "E", "N", "C", "R", "Y", "P", "T", "E", "D", " ", "M", "E", "S",
    "S", "A", "G", "E", ".">>
ARMOR_FOOTER_ENCRYPTION ==
  <<"E", "N", "D", " ", "S", "A", "L", "T", "P", "A", "C", "K", " ", "E",
    "N", "C", "R", "Y", "P", "T", "E", "D", " ", "M", "E", "S", "S", "A",
    "G", "E", ".">>
ARMOR_HEADER_SIGNED ==
  <<"B", "E", "G", "I", "N", " ", "S", "A", "L", "T", "P", "A", "C", "K",
    " ", "S", "I", "G", "N", "E", "D", " ", "M", "E", "S", "S", "A", "G",
    "E", ".">>
ARMOR_FOOTER_SIGNED ==
  <<"E", "N", "D", " ", "S", "A", "L", "T", "P", "A", "C", "K", " ", "S",
    "I", "G", "N", "E", "D", " ", "M", "E", "S", "S", "A", "G", "E", ".">>
BEGIN_SALTPACK ==
  <<"B", "E", "G", "I", "N", " ", "S", "A", "L", "T", "P", "A", "C", "K">>
END_SALTPACK ==
  <<"E", "N", "D", " ", "S", "A", "L", "T", "P", "A", "C", "K">>

BLOCK_SIZE == 43

\* the base64 alphabet, value v at position v + 1
Base64Alphabet ==
  <<"A", "B", "C", "D", "E", "F", "G", "H", "I", "J", "K", "L", "M", "N",
    "O", "P", "Q", "R", "S", "T", "U", "V", "W", "X", "Y", "Z", "a", "b",
    "c", "d", "e", "f", "g", "h", "i", "j", "k", "l", "m", "n", "o", "p",
    "q", "r", "s", "t", "u", "v", "w", "x", "y", "z", "0", "1", "2", "3",
    "4", "5", "6", "7", "8", "9", "+", "/">>

\* btoa of the bytes from offset i on
RECURSIVE btoa(_, _)
btoa(data, i) ==
  LET rest == Len(data) - i
      b1 == data[i + 1]
      b2 == IF rest >= 2 THEN data[i + 2] ELSE 0
      b3 == IF rest >= 3 THEN data[i + 3] ELSE 0
      n == b1 * 65536 + b2 * 256 + b3
      c1 == Base64Alphabet[(n \div 262144) + 1]
      c2 == Base64Alphabet[((n \div 4096) % 64) + 1]
      c3 == Base64Alphabet[((n \div 64) % 64) + 1]
      c4 == Base64Alphabet[(n % 64) + 1]
  IN IF rest <= 0 THEN <<>>
     ELSE IF rest = 1 THEN <<c1, c2, "=", "=">>
     ELSE IF rest = 2 THEN <<c1, c2, c3, "=">>
     ELSE <<c1, c2, c3, c4>> \o btoa(data, i + 3)

encodeBase64(data) == btoa(data, 0)

\* ASCII whitespace
Whitespace == {" ", "\n", "\t", "\r"}

Base64Value(c) == (CHOOSE v \in 1..64 : Base64Alphabet[v] = c) - 1

\* the bytes of the base64 characters from offset i on (1 to 4 characters of
\* the last group; leftover bits are dropped)
RECURSIVE atobGroups(_, _)
atobGroups(str, i) ==
  LET rest == Len(str) - i
      v1 == Base64Value(str[i + 1])
      v2 == IF rest >= 2 THEN Base64Value(str[i + 2]) ELSE 0
      v3 == IF rest >= 3 THEN Base64Value(str[i + 3]) ELSE 0
      v4 == IF rest >= 4 THEN Base64Value(str[i + 4]) ELSE 0
      n == v1 * 262144 + v2 * 4096 + v3 * 64 + v4
      o1 == n \div 65536
      o2 == (n \div 256) % 256
      o3 == n % 256
  IN IF rest <= 0 THEN <<>>
     ELSE IF rest = 2 THEN <<o1>>
     ELSE IF rest = 3 THEN <<o1, o2>>
     ELSE <<o1, o2, o3>> \o atobGroups(str, i + 4)

\* atob: whitespace is removed, then padding; ok = FALSE when it throws
atob(str) ==
  LET IsData(c) == c \notin Whitespace
      s1 == SelectSeq(str, IsData)
      pad == IF Len(s1) % 4 = 0 /\ Len(s1) > 0 /\ s1[Len(s1)] = "="
             THEN IF s1[Len(s1) - 1] = "=" THEN 2 ELSE 1
             ELSE 0
      s2 == SubSeq(s1, 1, Len(s1) - pad)
  IN IF Len(s2) % 4 = 1 \/ \E k \in 1..Len(s2) : s2[k] \notin Range(Base64Alphabet)
     THEN [ok |-> FALSE, bytes |-> <<>>]
     ELSE [ok |-> TRUE, bytes |-> atobGroups(s2, 0)]

decodeBase64(str) == atob(str)

\* armorBlocks with blocks of BLOCK_SIZE + 1 characters
RECURSIVE armorBlocks_longBlocks(_, _)
armorBlocks_longBlocks(encoded, i) ==
  IF i < Len(encoded)
  THEN <<SubSeq(encoded, i + 1, Min(i + BLOCK_SIZE + 1, Len(encoded)))>>
         \o armorBlocks_longBlocks(encoded, i + BLOCK_SIZE + 1)
  ELSE <<>>

\* encoded cut into blocks of BLOCK_SIZE characters, from offset i on
RECURSIVE armorBlocks(_, _)
armorBlocks(encoded, i) ==
  IF i < Len(encoded)
  THEN <<SubSeq(encoded, i + 1, Min(i + BLOCK_SIZE, Len(encoded)))>>
         \o armorBlocks(encoded, i + BLOCK_SIZE)
  ELSE <<>>

\* lines.join("\n")
RECURSIVE joinLines(_)
joinLines(lines) ==
  IF Len(lines) = 0 THEN <<>>
  ELSE IF Len(lines) = 1 THEN lines[1]
  ELSE lines[1] \o <<"\n">> \o joinLines(Tail(lines))

armor(data, messageType) ==
  LET encoded == encodeBase64(data)
      blocks == armorBlocks(encoded, 0)
      header == IF messageType = "ENCRYPTED" THEN ARMOR_HEADER_ENCRYPTION
                ELSE ARMOR_HEADER_SIGNED
      footer == IF messageType = "ENCRYPTED" THEN ARMOR_FOOTER_ENCRYPTION
                ELSE ARMOR_FOOTER_SIGNED
  IN joinLines(<<header>> \o blocks \o <<footer>>)

\* String.prototype.trim
RECURSIVE trimStart(_)
trimStart(str) ==
  IF Len(str) > 0 /\ str[1] \in Whitespace THEN trimStart(Tail(str)) ELSE str
RECURSIVE trimEnd(_)
trimEnd(str) ==
  IF Len(str) > 0 /\ str[Len(str)] \in Whitespace
  THEN trimEnd(SubSeq(str, 1, Len(str) - 1)) ELSE str
trim(str) == trimEnd(trimStart(str))

\* str.split("\n"): the pieces between consecutive line feeds, one more
\* than there are line feeds
splitLines(str) ==
  LET feeds == {i \in 1..Len(str) : str[i] = "\n"}
      feed(k) == CHOOSE i \in feeds : Cardinality({j \in feeds : j < i}) = k - 1
      n == Cardinality(feeds)
      first(k) == IF k = 1 THEN 1 ELSE feed(k - 1) + 1
      last(k) == IF k = n + 1 THEN Len(str) ELSE feed(k) - 1
  IN [k \in 1..(n + 1) |-> SubSeq(str, first(k), last(k))]

startsWith(str, prefix) ==
  Len(str) >= Len(prefix) /\ SubSeq(str, 1, Len(prefix)) = prefix

dearmor(armoredData) ==
  LET lines == splitLines(trim(armoredData))
      header == lines[1]
      footer == lines[Len(lines)]
      dataLines == SubSeq(lines, 2, Len(lines) - 1)
      encoded == Concat(dataLines)
      decoded == decodeBase64(encoded)
  IN IF Len(lines) < 3
     THEN [error |-> "Invalid armored data: too few lines", bytes |-> <<>>]
     ELSE IF ~startsWith(header, BEGIN_SALTPACK) \/ ~startsWith(footer, END_SALTPACK)
     THEN [error |-> "Invalid armored data: missing header or footer",
           bytes |-> <<>>]
     ELSE IF ~decoded.ok
     THEN [error |-> "Failed to decode armored data", bytes |-> <<>>]
     ELSE [error |-> "", bytes |-> decoded.bytes]

(***************************************************************************)
(* The armor run: armor is applied to a byte string, dearmor to its output *)
(***************************************************************************)
\* byte strings of every length up to MaxArmorLen: all bytes equal (0, the
\* line feed 10, 255) or all different
ArmorInputs ==
  {[i \in 1..n |-> b] : n \in 0..MaxArmorLen, b \in {0, 10, 255}}
    \cup {[i \in 1..n |-> (131 + 7 * i) % 256] : n \in 1..MaxArmorLen}

MessageTypes == {"ENCRYPTED", "SIGNED"}

(***************************************************************************)
(* The state machine                                                       *)
(***************************************************************************)
NoTamper == [kind |-> "none", i |-> 0, j |-> 0]

\* pc of a reader: "idle" before the call, "AwaitHeader" from the call to
\* the first generator.next(), "AwaitChunks" inside the packet loop, "Done"
\* when the call has returned, "Failed" when it has thrown
DecIdle ==
  [pc |-> "idle", recipientKeyPair |-> Null, pos |-> 1, payloadKey |-> <<>>,
   senderPublicKey |-> undefined, packetIndex |-> 0, decryptedChunks |-> <<>>,
   result |-> Null, error |-> "",
   boxOpens |-> 0, senderOpens |-> 0, opened |-> 0, sawEmpty |-> FALSE,
   accepted |-> <<>>]

VerIdle ==
  [pc |-> "idle", signerPublicKey |-> <<>>, pos |-> 1, senderPk |-> Undef,
   headerNonce |-> Undef, headerHash |-> Null, packetIndex |-> 0,
   chunks |-> <<>>, result |-> Null, error |-> "",
   sigChecks |-> 0, sawFinal |-> FALSE]

ArmIdle ==
  [pc |-> "idle", data |-> <<>>, messageType |-> "", armored |-> <<>>,
   mangle |-> "", result |-> <<>>, error |-> ""]

\* pc of a call: "idle" when none is made, "start" with the arguments
\* chosen, "encoded" when toHex has returned out, "returned" at the end
CallIdle ==
  [fn |-> "", a |-> <<>>, b |-> <<>>, pc |-> "idle", out |-> <<>>,
   back |-> <<>>]

\* what a standard stream holds: nothing ("none"), the help text ("help"),
\* the generated keys ("keys"), plain bytes ("bytes"), a binary message
\* ("binary") or an armored one ("armored"); lines are its lines of text and
\* data its bytes, for a message the tokens of the stream
Out(kind, lines, data) == [kind |-> kind, lines |-> lines, data |-> data]
NoOutput == Out("none", <<>>, <<>>)

\* the environment variables the README names, unset ones as ""
EnvNames ==
  {"SALTPACK_ENCRYPT_PK", "SALTPACK_DECRYPT_SK", "SALTPACK_VERIFY_PK",
   "SALTPACK_SIGN_SK"}
NoEnv == [name \in EnvNames |-> <<>>]

NoArgv ==
  [command |-> "", key |-> <<>>, armor |-> "", bin |-> FALSE,
   help |-> FALSE, json |-> FALSE]

\* pc of the command line: "idle" before the first invocation, "decrypt"
\* and "verify" while the handler awaits the library call, "exited" after
\* the process has ended with exit code code
CliIdle ==
  [pc |-> "idle", runs |-> 0, argv |-> NoArgv, env |-> NoEnv,
   stdin |-> NoOutput, piped |-> NoArgv, stdout |-> NoOutput,
   stderr |-> <<>>, code |-> -1]

Senders == {Null} \cup KeyPairs
\* recipient lists: every list of up to 2 keys (the empty list, equal keys
\* and both orders included) and, for each greater length, the list that
\* goes through the keys in turn
KeyNumber(k) ==
  CHOOSE pk \in PublicKeys :
    Cardinality({q \in PublicKeys : q[1] * 256 + q[KeyLen] < pk[1] * 256 + pk[KeyLen]}) = k
RecipientLists ==
  UNION {[1..n -> PublicKeys] : n \in 0..Min(2, MaxRecipients)}
    \cup {[i \in 1..n |-> KeyNumber((i - 1) % Cardinality(PublicKeys))] :
            n \in 3..MaxRecipients}
\* keys a caller may pass to verify: the signing keys and keys of other lengths
VerifyKeys ==
  PublicKeys \cup {[i \in 1..(KeyLen - 1) |-> 1], [i \in 1..(KeyLen + 1) |-> 1]}

Init ==
  /\ op = "none"
  /\ input = Null
  /\ wire = <<>>
  /\ tamper = NoTamper
  /\ dec = DecIdle
  /\ ver = VerIdle
  /\ arm = ArmIdle
  /\ cli = CliIdle
  /\ call = CallIdle
  /\ ops = <<>>

Readable == op \in {"enc", "sig"} /\ input.error = ""
Untouched == dec.pc = "idle" /\ ver.pc = "idle"

\* a call of encrypt(plaintext, senderKeyPair, recipientPublicKeys)
Encrypt ==
  /\ op = "none"
  /\ \E plaintext \in Plaintexts, senderKeyPair \in Senders,
        recipientPublicKeys \in RecipientLists,
        payloadKey \in PayloadKeys, ephemeralKeyPair \in EphemeralKeyPairs :
       LET r == encrypt(plaintext, senderKeyPair, recipientPublicKeys,
                        payloadKey, ephemeralKeyPair)
       IN /\ op' = "enc"
          /\ input' = [plaintext |-> plaintext, keyPair |-> senderKeyPair,
                       recipientPublicKeys |-> recipientPublicKeys,
                       error |-> r.error]
          /\ wire' = Concat(r.chunks)
  /\ UNCHANGED <<tamper, dec, ver, arm, cli, call, ops>>

\* a call of sign(message, signingKeyPair)
Sign ==
  /\ op = "none"
  /\ \E message \in Plaintexts, signingKeyPair \in KeyPairs,
        headerNonce \in HeaderNonces :
       /\ op' = "sig"
       /\ input' = [plaintext |-> message, keyPair |-> signingKeyPair,
                    recipientPublicKeys |-> <<>>, error |-> ""]
       /\ wire' = Concat(sign(message, signingKeyPair, headerNonce))
  /\ UNCHANGED <<tamper, dec, ver, arm, cli, call, ops>>

\* the header of sign as another writer may encode it: the same value with
\* the token at position p (an integer or an array head) in a longer form
\* than the shortest one
widerHeader(headerBytes, p) == [headerBytes EXCEPT ![p].w = 1]

\* the output of a signer that follows sign step by step but whose msgpack
\* encoder emits the header as widerHeader does: the hash is taken over the
\* header bytes it writes
signWider(message, signingKeyPair, headerNonce, p) ==
  LET header == VArr(<<VStr("saltpack"), VArr(<<VInt(2), VInt(0)>>), VInt(1),
                       VBin(Raw(signingKeyPair.publicKey)),
                       VBin(Raw(headerNonce))>>)
      headerBytes == widerHeader(encode(header), p)
      headerHash == hash(headerBytes)
      loop == signLoop(message, 0, 0, signingKeyPair.secretKey, headerHash,
                       headerNonce, <<headerBytes>>)
      emptyChunk == <<>>
      signature == computeSignature(signingKeyPair.secretKey, headerHash,
                                    headerNonce, loop.packetIndex, TRUE,
                                    emptyChunk)
  IN Append(loop.packets, encode(VArr(<<VBin(signature), VBin(Raw(emptyChunk))>>)))

\* the positions of the integers and array heads in the signing header
WidePositions == {1, 3, 4, 5, 6}

\* a signed message arrives from a writer whose header bytes are a valid
\* encoding of the header value but not the shortest one
SignWider ==
  /\ op = "none"
  /\ \E message \in Plaintexts, signingKeyPair \in KeyPairs,
        headerNonce \in HeaderNonces, p \in WidePositions :
       /\ op' = "sig"
       /\ input' = [plaintext |-> message, keyPair |-> signingKeyPair,
                    recipientPublicKeys |-> <<>>, error |-> ""]
       /\ wire' = Concat(signWider(message, signingKeyPair, headerNonce, p))
       /\ tamper' = [kind |-> "encoding", i |-> p, j |-> 0]
  /\ UNCHANGED <<dec, ver, arm, cli, call, ops>>

(***************************************************************************)
(* What may happen to the stream between writer and reader                 *)
(***************************************************************************)
\* the top-level values of a stream, each as its own token sequence
RECURSIVE topLevel(_, _, _)
topLevel(data, pos, acc) ==
  LET r == generator_next(data, pos) IN
  IF r.done \/ r.threw THEN acc
  ELSE topLevel(data, r.pos, Append(acc, SubSeq(data, pos, r.pos - 1)))

Xor1(n) == IF n % 2 = 0 THEN n + 1 ELSE n - 1
Xor2(n) == IF (n \div 2) % 2 = 0 THEN n + 2 ELSE n - 2

\* what a token can become when one bit of it is flipped: the element count
\* of the header array (only at token 1), an integer, the last character of
\* a string, one byte of a byte string; a ciphertext with a flipped bit is a
\* byte string that opens under no key
Flips(k, p) ==
  IF k.t = "arr"
  THEN IF p = 1 THEN {KArr(Xor1(k.n), k.w), KArr(Xor2(k.n), k.w)} ELSE {}
  ELSE IF k.t = "int" THEN {KInt(Xor1(k.n), k.w)}
  ELSE IF k.t = "str" THEN {VStr("saltpacj")}
  ELSE IF k.b.c = "raw"
  THEN {VBin(Raw([k.b.m EXCEPT ![b] = Xor1(@)])) : b \in 1..Len(k.b.m)}
  ELSE {VBin([c |-> "corrupt", m |-> <<>>])}

\* the stream is cut after n tokens, the header left whole
TruncateStream ==
  /\ Readable /\ Untouched /\ tamper = NoTamper
  /\ LET parts == topLevel(wire, 1, <<>>) IN
     \E n \in Len(parts[1])..(Len(wire) - 1) :
       /\ wire' = SubSeq(wire, 1, n)
       /\ tamper' = [kind |-> "trunc", i |-> n,
                     j |-> Len(topLevel(SubSeq(wire, 1, n), 1, <<>>))]
  /\ UNCHANGED <<op, input, dec, ver, arm, cli, call, ops>>

\* payload packets i and j (counted from 0, neither the last packet) change
\* places
SwapPackets ==
  /\ Readable /\ Untouched /\ tamper = NoTamper
  /\ LET parts == topLevel(wire, 1, <<>>) IN
     \E i, j \in 0..(Len(parts) - 3) :
       /\ i < j
       /\ wire' = Concat([parts EXCEPT ![i + 2] = parts[j + 2],
                                       ![j + 2] = parts[i + 2]])
       /\ tamper' = [kind |-> "swap", i |-> i, j |-> j]
  /\ UNCHANGED <<op, input, dec, ver, arm, cli, call, ops>>

\* one bit of the serialized header is flipped
FlipHeader ==
  /\ Readable /\ Untouched /\ tamper = NoTamper
  /\ LET parts == topLevel(wire, 1, <<>>) IN
     \E p \in 1..Len(parts[1]) :
       \E k \in Flips(wire[p], p) :
         /\ wire' = [wire EXCEPT ![p] = k]
         /\ tamper' = [kind |-> "header", i |-> p, j |-> 0]
  /\ UNCHANGED <<op, input, dec, ver, arm, cli, call, ops>>

\* top-level values that are not a payload packet of the writer's message
\* type: a non-array, an empty array, and an array of 2 elements where
\* packets have 1 (encryption), of 1 element where packets have 2 (signing)
MalformedPackets ==
  {VInt(0), VArr(<<>>),
   IF op = "enc" THEN VArr(<<VInt(0), VInt(0)>>) ELSE VArr(<<VInt(0)>>)}

\* a malformed value is inserted as top-level value number i (the header is
\* number 0): between header and packets, between two packets, or after the
\* last packet
InsertValue ==
  /\ Readable /\ Untouched /\ tamper = NoTamper
  /\ LET parts == topLevel(wire, 1, <<>>) IN
     \E i \in 1..Len(parts), v \in MalformedPackets :
       /\ wire' = Concat(SubSeq(parts, 1, i)) \o encode(v)
                    \o Concat(SubSeq(parts, i + 1, Len(parts)))
       /\ tamper' = [kind |-> "insert", i |-> i, j |-> 0]
  /\ UNCHANGED <<op, input, dec, ver, arm, cli, call, ops>>

\* the recipient entries at the header positions i and j change places
SwapRecipients ==
  /\ Readable /\ Untouched /\ tamper = NoTamper
  /\ op = "enc"
  /\ \E i, j \in 0..(Len(input.recipientPublicKeys) - 1) :
       /\ i < j
       /\ wire' = [wire EXCEPT ![11 + 3 * i] = wire[11 + 3 * j],
                               ![12 + 3 * i] = wire[12 + 3 * j],
                               ![11 + 3 * j] = wire[11 + 3 * i],
                               ![12 + 3 * j] = wire[12 + 3 * i]]
       /\ tamper' = [kind |-> "reorder", i |-> i, j |-> j]
  /\ UNCHANGED <<op, input, dec, ver, arm, cli, call, ops>>

\* a copy of payload packet j (counted from 0) is inserted as top-level
\* value number i: before a packet, or after the last packet
DuplicatePacket ==
  /\ Readable /\ Untouched /\ tamper = NoTamper
  /\ LET parts == topLevel(wire, 1, <<>>) IN
     \E i \in 1..Len(parts), j \in 0..(Len(parts) - 2) :
       /\ wire' = Concat(SubSeq(parts, 1, i)) \o parts[j + 2]
                    \o Concat(SubSeq(parts, i + 1, Len(parts)))
       /\ tamper' = [kind |-> "dup", i |-> i, j |-> j]
  /\ UNCHANGED <<op, input, dec, ver, arm, cli, call, ops>>

\* a payload packet that is not of the message: a chunk sealed under another
\* payload key
ForeignPacket ==
  encode(VArr(<<VBin(secretbox(<<9>>, makeNonce(NONCE_PREFIX_PAYLOAD, 0),
                               ZeroKey))>>))

\* most top-level values after the header of a rearranged stream
MaxRearranged == 3

\* the values after the header are replaced by up to MaxRearranged values,
\* each a packet of the message (k stands for packet k - 1), a value that
\* is no packet (0) or a foreign packet (-1): packets are dropped, repeated,
\* reordered, and values inserted, in any combination
RearrangePackets ==
  /\ Readable /\ Untouched /\ tamper = NoTamper
  /\ op = "enc"
  /\ Len(input.recipientPublicKeys) = 1
  /\ LET parts == topLevel(wire, 1, <<>>)
         value(k) == IF k = 0 THEN encode(VInt(0))
                     ELSE IF k = -1 THEN ForeignPacket
                     ELSE parts[k + 1]
     IN \E n \in 0..MaxRearranged :
          \E seq \in [1..n -> -1..(Len(parts) - 1)] :
            /\ seq # [k \in 1..(Len(parts) - 1) |-> k]
            /\ wire' = parts[1] \o Concat([k \in 1..n |-> value(seq[k])])
            /\ tamper' = [kind |-> "rearrange", i |-> n, j |-> 0]
  /\ UNCHANGED <<op, input, dec, ver, arm, cli, call, ops>>

\* msgpack nil
Nil == [t |-> "nil"]

\* the message as a writer that hides recipients would have written it: the
\* public-key slot of the recipient entry at index i is nil
HideRecipient ==
  /\ Readable /\ Untouched /\ tamper = NoTamper
  /\ op = "enc"
  /\ \E i \in 0..(Len(input.recipientPublicKeys) - 1) :
       /\ wire' = [wire EXCEPT ![11 + 3 * i] = Nil]
       /\ tamper' = [kind |-> "hide", i |-> i, j |-> 0]
  /\ UNCHANGED <<op, input, dec, ver, arm, cli, call, ops>>

(***************************************************************************)
(* decrypt as a process: one action per stretch between two awaits         *)
(***************************************************************************)
\* decrypt(encrypted, recipientKeyPair) is called with the binary stream: a
\* message written by encrypt, as written or tampered with, or an untouched
\* signed message
DecryptStart ==
  /\ Readable /\ Untouched
  /\ op = "enc" \/ tamper = NoTamper
  /\ \E recipientKeyPair \in KeyPairs :
       dec' = [DecIdle EXCEPT !.pc = "AwaitHeader",
                              !.recipientKeyPair = recipientKeyPair]
  /\ UNCHANGED <<op, input, wire, tamper, ver, arm, cli, call, ops>>

\* await generator.next() for the header, then everything up to the loop
decryptHeaderTurn(d, data) ==
  LET h == decryptHeader(data, d.recipientKeyPair) IN
  [d EXCEPT !.pc = IF h.error = "" THEN "AwaitChunks" ELSE "Failed",
            !.error = h.error,
            !.pos = h.pos,
            !.payloadKey = h.payloadKey,
            !.senderPublicKey = h.senderPublicKey,
            !.boxOpens = h.boxOpens,
            !.senderOpens = h.senderOpens]

DecryptHeader ==
  /\ dec.pc = "AwaitHeader"
  /\ dec' = decryptHeaderTurn(dec, wire)
  /\ UNCHANGED <<op, input, wire, tamper, ver, arm, cli, call, ops>>

\* the value decrypt returns from its locals
decryptResult(d) ==
  [plaintext |-> Concat(d.decryptedChunks),
   senderPublicKey |-> d.senderPublicKey]

\* the error of a payload packet without the packet index
payloadChunkError_noIndex(packetIndex) == "Failed to decrypt payload chunk"

\* the error thrown when the secretbox of a payload packet does not open
payloadChunkError(packetIndex) ==
  "Failed to decrypt payload chunk " \o ToString(packetIndex)

\* the test of the empty chunk that never holds
isTerminator_never(chunk) == FALSE

\* chunk.length === 0: the empty chunk marks the end of the message
isTerminator(chunk) == Len(chunk) = 0

\* one turn of for await (const packet of generator), the return included
decryptPacketTurn(d, data) ==
  LET r == generator_next(data, d.pos)
      p == r.value
      ciphertext == At(p, 0)
      nonce == makeNonce(NONCE_PREFIX_PAYLOAD, d.packetIndex)
      chunk == secretbox_open(ciphertext.b, nonce, d.payloadKey)
  IN
  IF r.done
  THEN [d EXCEPT !.pc = "Done", !.result = decryptResult(d)]
  ELSE IF r.threw
  THEN [d EXCEPT !.pc = "Failed", !.error = "RangeError"]
  ELSE IF ~IsArray(p) \/ Len(p.e) # 1
  THEN [d EXCEPT !.pos = r.pos]
  ELSE IF ciphertext.t # "bin"
  THEN [d EXCEPT !.pc = "Failed", !.error = "TypeError",
                 !.pos = r.pos]
  ELSE IF ~chunk.ok
  THEN [d EXCEPT !.pc = "Failed",
                 !.error = payloadChunkError(d.packetIndex),
                 !.pos = r.pos, !.opened = @ + 1]
  ELSE IF isTerminator(chunk.m)
  THEN [d EXCEPT !.pc = "Done", !.result = decryptResult(d),
                 !.pos = r.pos, !.opened = @ + 1,
                 !.sawEmpty = TRUE]
  ELSE [d EXCEPT !.decryptedChunks = Append(@, chunk.m),
                 !.packetIndex = @ + 1,
                 !.pos = r.pos, !.opened = @ + 1,
                 !.accepted = Append(@, ciphertext.b)]

DecryptPacket ==
  /\ dec.pc = "AwaitChunks"
  /\ dec' = decryptPacketTurn(dec, wire)
  /\ UNCHANGED <<op, input, wire, tamper, ver, arm, cli, call, ops>>

(***************************************************************************)
(* verify as a process                                                     *)
(***************************************************************************)
VerifyStart ==
  /\ Readable /\ Untouched
  /\ op = "sig" \/ tamper = NoTamper
  /\ \E signerPublicKey \in VerifyKeys :
       ver' = [VerIdle EXCEPT !.pc = "AwaitHeader",
                              !.signerPublicKey = signerPublicKey]
  /\ UNCHANGED <<op, input, wire, tamper, dec, arm, cli, call, ops>>

verifyHeaderTurn(v, data) ==
  LET h == verifyHeader(data, v.signerPublicKey) IN
  [v EXCEPT !.pc = IF h.error = "" THEN "AwaitChunks" ELSE "Failed",
            !.error = h.error,
            !.pos = h.pos,
            !.senderPk = h.senderPk,
            !.headerNonce = h.headerNonce,
            !.headerHash = h.headerHash]

VerifyHeader ==
  /\ ver.pc = "AwaitHeader"
  /\ ver' = verifyHeaderTurn(ver, wire)
  /\ UNCHANGED <<op, input, wire, tamper, dec, arm, cli, call, ops>>

verifyResult(v) ==
  [message |-> Concat(v.chunks), senderPublicKey |-> v.senderPk.b.m,
   verified |-> TRUE]

\* one turn of for await (const packet of generator), the return included
verifyPacketTurn(v, data) ==
  LET r == generator_next(data, v.pos)
      p == r.value
      signature == At(p, 0)
      chunk == At(p, 1)
      isFinal == Len(chunk.b.m) = 0
      signInput == verifySignInput(v.headerHash, v.headerNonce.b.m,
                                   v.packetIndex, chunk.b.m)
      valid == sign_detached_verify(signInput, signature.b, v.senderPk.b.m)
  IN
  IF r.done
  THEN [v EXCEPT !.pc = "Done", !.result = verifyResult(v)]
  ELSE IF r.threw
  THEN [v EXCEPT !.pc = "Failed", !.error = "RangeError"]
  ELSE IF ~IsArray(p) \/ Len(p.e) # 2
  THEN [v EXCEPT !.pc = "Failed",
                 !.error = "Invalid payload packet", !.pos = r.pos]
  ELSE IF \/ chunk.t # "bin" \/ chunk.b.c # "raw"
          \/ signature.t # "bin"
          \/ v.headerNonce.t # "bin" \/ v.headerNonce.b.c # "raw"
  THEN [v EXCEPT !.pc = "Failed", !.error = "TypeError",
                 !.pos = r.pos]
  ELSE IF ~valid
  THEN [v EXCEPT !.pc = "Failed",
                 !.error = "Signature verification failed for packet "
                            \o ToString(v.packetIndex),
                 !.pos = r.pos, !.sigChecks = @ + 1]
  ELSE [v EXCEPT !.chunks = IF isFinal THEN @ ELSE Append(@, chunk.b.m),
                 !.packetIndex = @ + 1,
                 !.pos = r.pos, !.sigChecks = @ + 1,
                 !.sawFinal = @ \/ isFinal]

VerifyPacket ==
  /\ ver.pc = "AwaitChunks"
  /\ ver' = verifyPacketTurn(ver, wire)
  /\ UNCHANGED <<op, input, wire, tamper, dec, arm, cli, call, ops>>

Next ==
  \/ Encrypt
  \/ Sign
  \/ SignWider
  \/ TruncateStream
  \/ SwapPackets
  \/ FlipHeader
  \/ InsertValue
  \/ HideRecipient
  \/ DuplicatePacket
  \/ SwapRecipients
  \/ RearrangePackets
  \/ DecryptStart
  \/ DecryptHeader
  \/ DecryptPacket
  \/ VerifyStart
  \/ VerifyHeader
  \/ VerifyPacket

Spec == Init /\ [][Next]_vars

(***************************************************************************)
(* The armor codec on its own: armor(data, messageType), then dearmor of   *)
(* the string it returned                                                  *)
(***************************************************************************)
InitArmor ==
  /\ op = "none"
  /\ input = Null
  /\ wire = <<>>
  /\ tamper = NoTamper
  /\ dec = DecIdle
  /\ ver = VerIdle
  /\ \E data \in ArmorInputs, messageType \in MessageTypes :
       arm = [ArmIdle EXCEPT !.pc = "start", !.data = data,
                             !.messageType = messageType]
  /\ cli = CliIdle
  /\ call = CallIdle
  /\ ops = <<>>

Armor ==
  /\ arm.pc = "start"
  /\ arm' = [arm EXCEPT !.pc = "armored",
                        !.armored = armor(arm.data, arm.messageType)]
  /\ UNCHANGED <<op, input, wire, tamper, dec, ver, cli, call, ops>>

\* what the string given to dearmor may be instead of the output of armor:
\* the body replaced by one empty line, header or footer line missing or
\* not starting with the marker, a character outside the base64 alphabet in
\* the body, an empty line in front of the footer, whitespace around it
Mangled(str, kind) ==
  LET lines == splitLines(str)
      n == Len(lines)
  IN CASE kind = "emptyBody" -> joinLines(<<lines[1], <<>>, lines[n]>>)
       [] kind = "dropHeader" -> joinLines(Tail(lines))
       [] kind = "dropFooter" -> joinLines(SubSeq(lines, 1, n - 1))
       [] kind = "badHeader" ->
            joinLines([lines EXCEPT ![1] = [@ EXCEPT ![1] = "b"]])
       [] kind = "badFooter" ->
            joinLines([lines EXCEPT ![n] = [@ EXCEPT ![1] = "e"]])
       [] kind = "badChar" ->
            joinLines([lines EXCEPT ![2] = [@ EXCEPT ![1] = "!"]])
       [] kind = "blankLine" ->
            joinLines(SubSeq(lines, 1, n - 1) \o <<<<>>, lines[n]>>)
       [] kind = "whitespace" -> <<" ", "\n">> \o str \o <<"\n", "\t">>

MangleKinds ==
  {"emptyBody", "dropHeader", "dropFooter", "badHeader", "badFooter",
   "badChar", "blankLine", "whitespace"}

\* the caller of dearmor passes a string that is not the output of armor
Mangle ==
  /\ arm.pc = "armored" /\ arm.mangle = ""
  /\ \E kind \in MangleKinds :
       /\ kind = "badChar" => Len(arm.data) > 0
       /\ arm' = [arm EXCEPT !.mangle = kind,
                             !.armored = Mangled(arm.armored, kind)]
  /\ UNCHANGED <<op, input, wire, tamper, dec, ver, cli, call, ops>>

Dearmor ==
  /\ arm.pc = "armored"
  /\ LET r == dearmor(arm.armored) IN
     arm' = [arm EXCEPT !.pc = IF r.error = "" THEN "done" ELSE "threw",
                        !.result = r.bytes,
                        !.error = r.error]
  /\ UNCHANGED <<op, input, wire, tamper, dec, ver, cli, call, ops>>

NextArmor ==
  \/ Armor
  \/ Mangle
  \/ Dearmor

SpecArmor == InitArmor /\ [][NextArmor]_vars

(***************************************************************************)
(* Hex strings (utils module)                                              *)
(***************************************************************************)
HexDigits ==
  <<"0", "1", "2", "3", "4", "5", "6", "7", "8", "9", "a", "b", "c", "d",
    "e", "f">>
IsHexDigit(c) == \E k \in 1..16 : HexDigits[k] = c
HexValue(c) == (CHOOSE k \in 1..16 : HexDigits[k] = c) - 1

PK_0X == <<"p", "k", "_", "0", "x">>
SK_0X == <<"s", "k", "_", "0", "x">>
ZERO_X == <<"0", "x">>

\* parseInt(s, 16) of a string of two characters among 0-9 and a-z: the
\* digits up to the first character that is no hex digit, -1 for NaN; under
\* radix 16 a leading "0x" is skipped, which leaves no digit
parseInt16(s) ==
  IF ~IsHexDigit(s[1]) \/ s = ZERO_X THEN -1
  ELSE IF ~IsHexDigit(s[2]) THEN HexValue(s[1])
  ELSE 16 * HexValue(s[1]) + HexValue(s[2])

\* fromHex: the bytes, or threw for "Invalid hex string"
fromHex(hexString) ==
  LET cleanHex ==
        IF startsWith(hexString, PK_0X)
        THEN SubSeq(hexString, 6, Len(hexString))
        ELSE IF startsWith(hexString, SK_0X)
        THEN SubSeq(hexString, 6, Len(hexString))
        ELSE IF startsWith(hexString, ZERO_X)
        THEN SubSeq(hexString, 3, Len(hexString))
        ELSE hexString
      n == Len(cleanHex) \div 2
      byte(i) == parseInt16(SubSeq(cleanHex, 2 * i - 1, 2 * i))
  IN IF Len(cleanHex) % 2 # 0 THEN [threw |-> TRUE, bytes |-> <<>>]
     ELSE IF \E i \in 1..n : byte(i) = -1
     THEN [threw |-> TRUE, bytes |-> <<>>]
     ELSE [threw |-> FALSE, bytes |-> [i \in 1..n |-> byte(i)]]

\* toHex without padStart(2, "0")
toHex_noPad(bytes, prefix) ==
  prefix \o Concat([i \in 1..Len(bytes) |->
                      IF bytes[i] < 16 THEN <<HexDigits[bytes[i] + 1]>>
                      ELSE <<HexDigits[(bytes[i] \div 16) + 1],
                             HexDigits[(bytes[i] % 16) + 1]>>])

toHex(bytes, prefix) ==
  prefix \o Concat([i \in 1..Len(bytes) |->
                      <<HexDigits[(bytes[i] \div 16) + 1],
                        HexDigits[(bytes[i] % 16) + 1]>>])

(***************************************************************************)
(* Key pairs from secret keys (keys module)                                *)
(***************************************************************************)
\* nacl.box.keyPair.fromSecretKey throws "bad secret key size" for a key of
\* another length
getKeyPairFromSecret(secretKey) ==
  IF Len(secretKey) # KeyLen THEN [threw |-> TRUE, keyPair |-> Null]
  ELSE [threw |-> FALSE,
        keyPair |-> [publicKey |-> PublicOf(secretKey),
                     secretKey |-> secretKey]]

getSigningKeyPairFromSecret(secretKey) ==
  IF Len(secretKey) # KeyLen THEN [threw |-> TRUE, keyPair |-> Null]
  ELSE [threw |-> FALSE,
        keyPair |-> [publicKey |-> PublicOf(secretKey),
                     secretKey |-> secretKey]]

(***************************************************************************)
(* The command line (src/src/cli.ts)                                       *)
(***************************************************************************)
\* armor and dearmor of a message kept as its tokens: the header and footer
\* lines are the strings of the armor module, the base64 body between them
\* stands in data as the stream it encodes
armorStream(data, messageType) ==
  Out("armored",
      IF messageType = "ENCRYPTED"
      THEN <<ARMOR_HEADER_ENCRYPTION, ARMOR_FOOTER_ENCRYPTION>>
      ELSE <<ARMOR_HEADER_SIGNED, ARMOR_FOOTER_SIGNED>>,
      data)

dearmorStream(str) ==
  LET full == {k \in 1..Len(str.lines) : Len(trim(str.lines[k])) > 0}
      header == str.lines[CHOOSE k \in full : \A j \in full : k <= j]
      footer == str.lines[CHOOSE k \in full : \A j \in full : k >= j]
      bodyLines == IF Len(str.data) > 0 THEN 1 ELSE 0
  IN IF full = {} \/ Cardinality(full) + bodyLines < 3
     THEN [error |-> "Invalid armored data: too few lines", data |-> <<>>]
     ELSE IF \/ ~startsWith(trimStart(header), BEGIN_SALTPACK)
             \/ ~startsWith(footer, END_SALTPACK)
     THEN [error |-> "Invalid armored data: missing header or footer",
           data |-> <<>>]
     ELSE [error |-> "", data |-> str.data]

\* encryptToStr: encrypt with its output armored as an encrypted message
encryptToStr(plaintext, senderKeyPair, recipientPublicKeys, payloadKey, ephemeralKeyPair) ==
  LET r == encrypt(plaintext, senderKeyPair, recipientPublicKeys,
                   payloadKey, ephemeralKeyPair)
  IN [error |-> r.error,
      str |-> IF r.error = "" THEN armorStream(Concat(r.chunks), "ENCRYPTED")
              ELSE NoOutput]

\* decryptFromStr up to the call of decrypt on the binary stream: the
\* stream, or the error of a string that is no armor
decryptFromStr(str) ==
  LET d == dearmorStream(str)
  IN IF d.error # "" THEN [error |-> "Failed to dearmor input.", data |-> <<>>]
     ELSE [error |-> "", data |-> d.data]

signToStr(message, signingKeyPair, headerNonce) ==
  armorStream(Concat(sign(message, signingKeyPair, headerNonce)), "SIGNED")

\* verifyFromStr up to the call of verify on the binary stream
verifyFromStr(signedMessage) ==
  LET d == dearmorStream(signedMessage)
  IN IF d.error # "" THEN [error |-> "Failed to dearmor input.", data |-> <<>>]
     ELSE [error |-> "", data |-> d.data]

\* the bytes of a standard input as the decoder reads them: a message is
\* its tokens, a plain byte below 128 is the msgpack integer of that value
streamOf(stdin) ==
  IF stdin.kind = "bytes"
  THEN [i \in 1..Len(stdin.data) |-> KInt(stdin.data[i], 0)]
  ELSE stdin.data

\* inputStr.trim().startsWith("BEGIN SALTPACK")
isArmor(stdin) ==
  /\ Len(stdin.lines) > 0
  /\ startsWith(trim(stdin.lines[1]), BEGIN_SALTPACK)

\* parseArgs(Deno.args, ...): armor is true unless given as false, help and
\* json are false unless given; --bin is no option of the configuration and
\* ends as a property of its own that nothing reads
parseArgs(argv) ==
  [positional |-> IF argv.command = "" THEN <<>> ELSE <<argv.command>>,
   key |-> argv.key,
   armor |-> argv.armor # "--armor=false",
   help |-> argv.help,
   json |-> argv.json,
   bin |-> argv.bin]

HelpText ==
  <<
    <<"U", "s", "a", "g", "e", ":", " ", "s", "a", "l", "t", "p", "a",
      "c", "k", " ", "<", "c", "o", "m", "m", "a", "n", "d", ">", " ",
      "[", "o", "p", "t", "i", "o", "n", "s", "]">>,
<<>>,
    <<"C", "o", "m", "m", "a", "n", "d", "s", ":">>,
    <<" ", " ", "e", "n", "c", "r", "y", "p", "t", " ", " ", " ", " ",
      "E", "n", "c", "r", "y", "p", "t", " ", "d", "a", "t", "a", " ",
      "f", "r", "o", "m", " ", "s", "t", "d", "i", "n">>,
    <<" ", " ", "d", "e", "c", "r", "y", "p", "t", " ", " ", " ", " ",
      "D", "e", "c", "r", "y", "p", "t", " ", "d", "a", "t", "a", " ",
      "f", "r", "o", "m", " ", "s", "t", "d", "i", "n">>,
    <<" ", " ", "s", "i", "g", "n", " ", " ", " ", " ", " ", " ", " ",
      "S", "i", "g", "n", " ", "d", "a", "t", "a", " ", "f", "r", "o",
      "m", " ", "s", "t", "d", "i", "n">>,
    <<" ", " ", "v", "e", "r", "i", "f", "y", " ", " ", " ", " ", " ",
      "V", "e", "r", "i", "f", "y", " ", "s", "i", "g", "n", "e", "d",
      " ", "d", "a", "t", "a", " ", "f", "r", "o", "m", " ", "s", "t",
      "d", "i", "n">>,
    <<" ", " ", "k", "e", "y", "g", "e", "n", " ", " ", " ", " ", " ",
      "G", "e", "n", "e", "r", "a", "t", "e", " ", "n", "e", "w", " ",
      "k", "e", "y", " ", "p", "a", "i", "r", "s">>,
<<>>,
    <<"O", "p", "t", "i", "o", "n", "s", ":">>,
    <<" ", " ", "-", "k", ",", " ", "-", "-", "k", "e", "y", " ", "<",
      "k", "e", "y", ">", " ", " ", " ", " ", " ", " ", " ", " ", " ",
      "P", "r", "i", "v", "a", "t", "e", "/", "P", "u", "b", "l", "i",
      "c", " ", "k", "e", "y", " ", "(", "h", "e", "x", ")", " ", "(",
      "f", "o", "r", " ", "a", "l", "l", " ", "o", "p", "e", "r", "a",
      "t", "i", "o", "n", "s", ")">>,
    <<" ", " ", "-", "a", ",", " ", "-", "-", "a", "r", "m", "o", "r",
      " ", " ", " ", " ", " ", " ", " ", " ", " ", " ", " ", " ", " ",
      "O", "u", "t", "p", "u", "t", " ", "a", "s", " ", "A", "S", "C",
      "I", "I", " ", "a", "r", "m", "o", "r", " ", "(", "d", "e", "f",
      "a", "u", "l", "t", ":", " ", "t", "r", "u", "e", ")">>,
    <<" ", " ", "-", "-", "j", "s", "o", "n", " ", " ", " ", " ", " ",
      " ", " ", " ", " ", " ", " ", " ", " ", " ", " ", " ", " ", " ",
      "O", "u", "t", "p", "u", "t", " ", "k", "e", "y", "s", " ", "i",
      "n", " ", "J", "S", "O", "N", " ", "f", "o", "r", "m", "a", "t",
      " ", "(", "f", "o", "r", " ", "k", "e", "y", "g", "e", "n", ")">>,
    <<" ", " ", "-", "h", ",", " ", "-", "-", "h", "e", "l", "p", " ",
      " ", " ", " ", " ", " ", " ", " ", " ", " ", " ", " ", " ", " ",
      "S", "h", "o", "w", " ", "h", "e", "l", "p">>,
<<>>
  >>

SALTPACK_ENCRYPT_PK ==
  <<"S", "A", "L", "T", "P", "A", "C", "K", "_", "E", "N", "C", "R", "Y",
    "P", "T", "_", "P", "K">>
SALTPACK_DECRYPT_SK ==
  <<"S", "A", "L", "T", "P", "A", "C", "K", "_", "D", "E", "C", "R", "Y",
    "P", "T", "_", "S", "K">>
SALTPACK_VERIFY_PK ==
  <<"S", "A", "L", "T", "P", "A", "C", "K", "_", "V", "E", "R", "I", "F",
    "Y", "_", "P", "K">>
SALTPACK_SIGN_SK ==
  <<"S", "A", "L", "T", "P", "A", "C", "K", "_", "S", "I", "G", "N", "_",
    "S", "K">>

\* printHelp: console.log of the usage text
printHelp == Out("help", HelpText, <<>>)

\* outputResult: a string goes through console.log, which ends it with a
\* line feed, bytes are written as they are
outputResult(data) ==
  IF data.kind = "armored" THEN [data EXCEPT !.lines = Append(@, <<>>)]
  ELSE data

\* the process ends: Deno.exit(code), or the end of cli() with code 0
Exit(c, code, stdout, stderr) ==
  [c EXCEPT !.pc = "exited", !.code = code, !.stdout = stdout,
            !.stderr = stderr]

\* an error thrown outside every try block rejects the promise of cli(),
\* which nothing awaits: the runtime prints the error with the stack of the
\* throw and ends the process with code 1
Uncaught(c, message, frames) ==
  Exit(c, 1, NoOutput,
       <<"error: Uncaught (in promise) Error: " \o message>> \o frames)

\* ---- inputs of an invocation ----
MaxRuns == 2

\* the key pairs of the users of the command line
CliKeyPairs == {kp \in KeyPairs : kp.publicKey[1] = 1}

\* hex strings given as keys: public and secret keys as keygen prints them,
\* a string that is no hex, one of odd length, and a key of one byte
BadHex == {<<"z", "z">>, <<"0", "x", "1">>}
ShortHex == {<<"0", "x", "0", "1">>}
KeyHexes ==
  {toHex(kp.publicKey, PK_0X) : kp \in CliKeyPairs}
    \cup {toHex(kp.secretKey, SK_0X) : kp \in CliKeyPairs}
    \cup BadHex \cup ShortHex

\* -k given never, once, or (for two public keys, and for a public key and
\* a string that is no hex) twice
KeyArgs ==
  {<<>>} \cup {<<k>> : k \in KeyHexes}
    \cup {<<toHex([i \in 1..KeyLen |-> 1], PK_0X), k>> :
            k \in {toHex([i \in 1..KeyLen |-> IF i = KeyLen THEN 2 ELSE 1],
                         PK_0X),
                   <<"z", "z">>}}

Argvs(command) ==
  {[command |-> command, key |-> key, armor |-> armorArg, bin |-> bin,
    help |-> FALSE, json |-> FALSE] :
     key \in KeyArgs, armorArg \in {"", "--armor=false"}, bin \in BOOLEAN}

\* the environment: nothing set, or the four variables set to the keys of
\* one user
EnvOf(kp) ==
  [name \in EnvNames |->
     IF name \in {"SALTPACK_ENCRYPT_PK", "SALTPACK_VERIFY_PK"}
     THEN toHex(kp.publicKey, PK_0X) ELSE toHex(kp.secretKey, SK_0X)]
Envs == {NoEnv, EnvOf(KeyPairOf([i \in 1..KeyLen |-> 1]))}

\* what a user types or pipes in
StdinData ==
  {Out("bytes", <<>>, <<>>),
   Out("bytes", <<>>, [i \in 1..Min(CHUNK_SIZE + 1, MaxLen) |-> i])}

\* the first invocation reads what the user gives it; a later one is a
\* decrypt or verify that reads the message the one before has written
Invocable(command) ==
  \/ cli.pc = "idle"
  \/ /\ cli.pc = "exited" /\ cli.runs < MaxRuns
     /\ cli.code = 0
     /\ cli.stdout.kind \in {"binary", "armored"}
     /\ command \in {"decrypt", "verify"}

\* the invocation as it starts: its arguments, environment and input
Invoked(argv, env, data) ==
  [pc |-> "running", runs |-> cli.runs + 1, argv |-> argv, env |-> env,
   stdin |-> IF cli.pc = "idle" THEN data ELSE cli.stdout,
   piped |-> IF cli.pc = "idle" THEN NoArgv ELSE cli.argv,
   stdout |-> NoOutput, stderr |-> <<>>, code |-> -1]

\* ---- the handlers ----
\* cli() with --help: the help text, whatever else is given
CliHelp ==
  /\ Invocable("help")
  /\ \E command \in {"", "encrypt", "keygen"}, env \in Envs, data \in StdinData :
       LET argv == [NoArgv EXCEPT !.command = command, !.help = TRUE]
           args == parseArgs(argv)
       IN /\ args.help
          /\ cli' = Exit(Invoked(argv, env, data), 0, printHelp, <<>>)
  /\ UNCHANGED <<op, input, wire, tamper, dec, ver, arm, call, ops>>

\* the default branch of the switch: no command, or one that is unknown
CliDefault ==
  /\ Invocable("default")
  /\ \E command \in {"", "frobnicate"}, env \in Envs, data \in StdinData :
       LET argv == [NoArgv EXCEPT !.command = command]
           args == parseArgs(argv)
           c == Invoked(argv, env, data)
       IN /\ ~args.help
          /\ cli' = IF Len(args.positional) = 0
                    THEN Exit(c, 0, printHelp, <<>>)
                    ELSE Exit(c, 1, printHelp,
                              <<"Unknown command: " \o args.positional[1]>>)
  /\ UNCHANGED <<op, input, wire, tamper, dec, ver, arm, call, ops>>

\* the lines keygen prints for the two key pairs
keygenLines(encKp, signKp, json) ==
  LET encryptPk == toHex(encKp.publicKey, PK_0X)
      decryptSk == toHex(encKp.secretKey, SK_0X)
      verifyPk == toHex(signKp.publicKey, PK_0X)
      signSk == toHex(signKp.secretKey, SK_0X)
      member(name, value, comma) ==
        <<" ", " ", "\"">> \o name \o <<"\"", ":", " ", "\"">> \o value
          \o <<"\"">> \o comma
  IN IF json
     THEN <<<<"{">>,
            member(SALTPACK_ENCRYPT_PK, encryptPk, <<",">>),
            member(SALTPACK_DECRYPT_SK, decryptSk, <<",">>),
            member(SALTPACK_VERIFY_PK, verifyPk, <<",">>),
            member(SALTPACK_SIGN_SK, signSk, <<>>),
            <<"}">>, <<>>>>
     ELSE <<SALTPACK_ENCRYPT_PK \o <<"=">> \o encryptPk,
            SALTPACK_DECRYPT_SK \o <<"=">> \o decryptSk,
            SALTPACK_VERIFY_PK \o <<"=">> \o verifyPk,
            SALTPACK_SIGN_SK \o <<"=">> \o signSk, <<>>>>

HandleKeygen ==
  /\ Invocable("keygen")
  /\ \E json \in BOOLEAN, env \in Envs, encKp \in KeyPairs, signKp \in KeyPairs :
       LET argv == [NoArgv EXCEPT !.command = "keygen", !.json = json]
           args == parseArgs(argv)
       IN /\ ~args.help /\ args.positional = <<"keygen">>
          /\ cli' = Exit(Invoked(argv, env, Out("bytes", <<>>, <<>>)), 0,
                         Out("keys", keygenLines(encKp, signKp, args.json), <<>>),
                         <<>>)
  /\ UNCHANGED <<op, input, wire, tamper, dec, ver, arm, call, ops>>

\* handleEncrypt from the arguments to the end of the process
HandleEncrypt ==
  /\ Invocable("encrypt")
  /\ \E argv \in Argvs("encrypt"), env \in Envs, data \in StdinData,
        payloadKey \in PayloadKeys, ephemeralKeyPair \in EphemeralKeyPairs :
       LET args == parseArgs(argv)
           c == Invoked(argv, env, data)
           recipientsHex == args.key
           parsed == [i \in 1..Len(recipientsHex) |-> fromHex(recipientsHex[i])]
           recipients == [i \in 1..Len(recipientsHex) |-> parsed[i].bytes]
           plaintext == c.stdin.data
           senderKp == Null
           badSize == \E i \in 1..Len(recipients) : Len(recipients[i]) # KeyLen
           asStr == encryptToStr(plaintext, senderKp, recipients, payloadKey,
                                 ephemeralKeyPair)
           asBytes == encrypt(plaintext, senderKp, recipients, payloadKey,
                              ephemeralKeyPair)
           error == IF badSize THEN "bad public key size"
                    ELSE IF args.armor THEN asStr.error ELSE asBytes.error
           encrypted == IF args.armor THEN asStr.str
                        ELSE Out("binary", <<>>, Concat(asBytes.chunks))
       IN /\ ~args.help /\ args.positional = <<"encrypt">>
          /\ IF Len(recipientsHex) = 0
             THEN /\ cli' = Exit(c, 1, NoOutput,
                      <<"Error: At least one recipient public key is required (-k).",
                        "Example: echo 'hello' | deno run ... encrypt -k <hex-key>">>)
                  /\ UNCHANGED <<op, input, wire>>
             ELSE IF \E i \in 1..Len(parsed) : parsed[i].threw
             THEN /\ cli' = Exit(c, 1, NoOutput,
                      <<"Error parsing recipient keys: Invalid hex string.">>)
                  /\ UNCHANGED <<op, input, wire>>
             ELSE IF error # ""
             THEN /\ cli' = Exit(c, 1, NoOutput, <<"Encryption error: " \o error>>)
                  /\ UNCHANGED <<op, input, wire>>
             ELSE /\ cli' = Exit(c, 0, outputResult(encrypted), <<>>)
                  /\ op' = "enc"
                  /\ input' = [plaintext |-> plaintext, keyPair |-> senderKp,
                               recipientPublicKeys |-> recipients,
                               error |-> ""]
                  /\ wire' = Concat(asBytes.chunks)
  /\ UNCHANGED <<tamper, dec, ver, arm, call, ops>>

\* handleDecrypt up to the await of the library call
HandleDecrypt ==
  /\ Invocable("decrypt")
  /\ \E argv \in Argvs("decrypt"), env \in Envs, data \in StdinData :
       LET args == parseArgs(argv)
           c == Invoked(argv, env, data)
           keys == args.key
           keyHex == IF Len(keys) > 0 THEN keys[1] ELSE <<>>
           secretKey == fromHex(keyHex)
           recipientKp == getKeyPairFromSecret(secretKey.bytes)
           encrypted == c.stdin
           fromStr == decryptFromStr(encrypted)
       IN /\ ~args.help /\ args.positional = <<"decrypt">>
          /\ IF Len(keyHex) = 0
             THEN /\ cli' = Exit(c, 1, NoOutput,
                                 <<"Error: Secret key is required (-k).">>)
                  /\ UNCHANGED <<wire, dec>>
             ELSE IF secretKey.threw
             THEN /\ cli' = Uncaught(c, "Invalid hex string",
                                     <<"    at fromHex", "    at handleDecrypt",
                                       "    at cli">>)
                  /\ UNCHANGED <<wire, dec>>
             ELSE IF recipientKp.threw
             THEN /\ cli' = Uncaught(c, "bad secret key size",
                                     <<"    at Object.fromSecretKey",
                                       "    at getKeyPairFromSecret",
                                       "    at handleDecrypt", "    at cli">>)
                  /\ UNCHANGED <<wire, dec>>
             ELSE /\ cli' = [c EXCEPT !.pc = "decrypt"]
                  /\ IF isArmor(encrypted) /\ fromStr.error # ""
                     THEN /\ wire' = <<>>
                          /\ dec' = [DecIdle EXCEPT
                                       !.pc = "Failed",
                                       !.recipientKeyPair = recipientKp.keyPair,
                                       !.error = fromStr.error]
                     ELSE /\ wire' = IF isArmor(encrypted) THEN fromStr.data
                                     ELSE streamOf(encrypted)
                          /\ dec' = [DecIdle EXCEPT
                                       !.pc = "AwaitHeader",
                                       !.recipientKeyPair = recipientKp.keyPair]
  /\ UNCHANGED <<op, input, tamper, ver, arm, call, ops>>

\* handleDecrypt after the library call has returned or thrown
DecryptReturned ==
  /\ cli.pc = "decrypt"
  /\ dec.pc \in {"Done", "Failed"}
  /\ cli' = IF dec.pc = "Done"
            THEN Exit(cli, 0, Out("bytes", <<>>, dec.result.plaintext), <<>>)
            ELSE Exit(cli, 1, NoOutput, <<"Decryption error: " \o dec.error>>)
  /\ UNCHANGED <<op, input, wire, tamper, dec, ver, arm, call, ops>>

\* handleSign from the arguments to the end of the process
HandleSign ==
  /\ Invocable("sign")
  /\ \E argv \in Argvs("sign"), env \in Envs, data \in StdinData,
        headerNonce \in HeaderNonces :
       LET args == parseArgs(argv)
           c == Invoked(argv, env, data)
           keys == args.key
           keyHex == IF Len(keys) > 0 THEN keys[1] ELSE <<>>
           secretKey == fromHex(keyHex)
           signingKp == getSigningKeyPairFromSecret(secretKey.bytes)
           message == c.stdin.data
           signed == IF args.armor
                     THEN signToStr(message, signingKp.keyPair, headerNonce)
                     ELSE Out("binary", <<>>,
                              Concat(sign(message, signingKp.keyPair,
                                          headerNonce)))
       IN /\ ~args.help /\ args.positional = <<"sign">>
          /\ IF Len(keyHex) = 0
             THEN /\ cli' = Exit(c, 1, NoOutput,
                                 <<"Error: Secret key is required (-k).">>)
                  /\ UNCHANGED <<op, input, wire>>
             ELSE IF secretKey.threw
             THEN /\ cli' = Uncaught(c, "Invalid hex string",
                                     <<"    at fromHex", "    at handleSign",
                                       "    at cli">>)
                  /\ UNCHANGED <<op, input, wire>>
             ELSE IF signingKp.threw
             THEN /\ cli' = Uncaught(c, "bad secret key size",
                                     <<"    at Object.fromSecretKey",
                                       "    at getSigningKeyPairFromSecret",
                                       "    at handleSign", "    at cli">>)
                  /\ UNCHANGED <<op, input, wire>>
             ELSE /\ cli' = Exit(c, 0, outputResult(signed), <<>>)
                  /\ op' = "sig"
                  /\ input' = [plaintext |-> message,
                               keyPair |-> signingKp.keyPair,
                               recipientPublicKeys |-> <<>>, error |-> ""]
                  /\ wire' = signed.data
  /\ UNCHANGED <<tamper, dec, ver, arm, call, ops>>

\* handleVerify up to the await of the library call
HandleVerify ==
  /\ Invocable("verify")
  /\ \E argv \in Argvs("verify"), env \in Envs, data \in StdinData :
       LET args == parseArgs(argv)
           c == Invoked(argv, env, data)
           keys == args.key
           senderHex == IF Len(keys) > 0 THEN keys[1] ELSE <<>>
           senderKey == fromHex(senderHex)
           signed == c.stdin
           fromStr == verifyFromStr(signed)
       IN /\ ~args.help /\ args.positional = <<"verify">>
          /\ IF Len(senderHex) = 0
             THEN /\ cli' = Exit(c, 1, NoOutput,
                                 <<"Error: Sender public key is required (-k).">>)
                  /\ UNCHANGED <<wire, ver>>
             ELSE IF senderKey.threw
             THEN /\ cli' = Uncaught(c, "Invalid hex string",
                                     <<"    at fromHex", "    at handleVerify",
                                       "    at cli">>)
                  /\ UNCHANGED <<wire, ver>>
             ELSE /\ cli' = [c EXCEPT !.pc = "verify"]
                  /\ IF isArmor(signed) /\ fromStr.error # ""
                     THEN /\ wire' = <<>>
                          /\ ver' = [VerIdle EXCEPT
                                       !.pc = "Failed",
                                       !.signerPublicKey = senderKey.bytes,
                                       !.error = fromStr.error]
                     ELSE /\ wire' = IF isArmor(signed) THEN fromStr.data
                                     ELSE streamOf(signed)
                          /\ ver' = [VerIdle EXCEPT
                                       !.pc = "AwaitHeader",
                                       !.signerPublicKey = senderKey.bytes]
  /\ UNCHANGED <<op, input, tamper, dec, arm, call, ops>>

\* handleVerify after the library call has returned or thrown
VerifyReturned ==
  /\ cli.pc = "verify"
  /\ ver.pc \in {"Done", "Failed"}
  /\ cli' = IF ver.pc = "Failed"
            THEN Exit(cli, 1, NoOutput, <<"Verification error: " \o ver.error>>)
            ELSE IF ver.result.verified
            THEN Exit(cli, 0, Out("bytes", <<>>, ver.result.message), <<>>)
            ELSE Exit(cli, 1, NoOutput, <<"Verification failed">>)
  /\ UNCHANGED <<op, input, wire, tamper, dec, ver, arm, call, ops>>

NextCli ==
  \/ CliHelp
  \/ CliDefault
  \/ HandleKeygen
  \/ HandleEncrypt
  \/ HandleDecrypt
  \/ DecryptHeader
  \/ DecryptPacket
  \/ DecryptReturned
  \/ HandleSign
  \/ HandleVerify
  \/ VerifyHeader
  \/ VerifyPacket
  \/ VerifyReturned

SpecCli == Init /\ [][NextCli]_vars

(***************************************************************************)
(* Calls of the helper functions makeNonce, toHex and fromHex              *)
(***************************************************************************)
\* length in bytes of the byte strings given to toHex
MaxHexLen == 2
\* length in characters of the strings given to fromHex, prefix not counted
MaxHexChars == 4

\* nonce prefixes: the three of the program, all zero, all 255, and one that
\* differs from NONCE_PREFIX_SENDER in its last byte only
NoncePrefixes ==
  {NONCE_PREFIX_RECIPS, NONCE_PREFIX_SENDER, NONCE_PREFIX_PAYLOAD,
   [i \in 1..16 |-> 0], [i \in 1..16 |-> 255],
   [NONCE_PREFIX_SENDER EXCEPT ![16] = 96]}

\* counters: around the byte boundaries of the 8-byte field
NonceCounters ==
  {0, 1, 2, 255, 256, 257, 65535, 65536, 16777215, 16777216, 2147483647}

\* byte strings given to toHex: bytes below and above 16, and the keys
HexBytes == {0, 9, 16, 171, 255}
HexByteStrings ==
  UNION {[1..n -> HexBytes] : n \in 0..MaxHexLen}
    \cup UNION {{kp.publicKey, kp.secretKey} : kp \in KeyPairs}

HexPrefixes == {<<>>, ZERO_X, PK_0X, SK_0X}

\* strings given to fromHex: hex digits, letters that are none, and x
HexChars == {"0", "1", "a", "f", "g", "x"}
HexStrings ==
  {p \o t : p \in HexPrefixes,
            t \in UNION {[1..n -> HexChars] : n \in 0..MaxHexChars}}

MakeNonceCalls ==
  {[CallIdle EXCEPT !.fn = "makeNonce", !.a = prefixes, !.b = counters,
                    !.pc = "start"] :
     prefixes \in NoncePrefixes \X NoncePrefixes,
     counters \in NonceCounters \X NonceCounters}

ToHexCalls ==
  {[CallIdle EXCEPT !.fn = "toHex", !.a = bytes, !.b = prefix,
                    !.pc = "start"] :
     bytes \in HexByteStrings, prefix \in HexPrefixes}

FromHexCalls ==
  {[CallIdle EXCEPT !.fn = "fromHex", !.a = hexString, !.pc = "start"] :
     hexString \in HexStrings}

InitUtil ==
  /\ op = "none"
  /\ input = Null
  /\ wire = <<>>
  /\ tamper = NoTamper
  /\ dec = DecIdle
  /\ ver = VerIdle
  /\ arm = ArmIdle
  /\ cli = CliIdle
  /\ \/ call \in MakeNonceCalls
     \/ call \in ToHexCalls
     \/ call \in FromHexCalls
  /\ ops = <<>>

\* two calls makeNonce(prefix, index)
MakeNonce ==
  /\ call.fn = "makeNonce"
  /\ call.pc = "start"
  /\ call' = [call EXCEPT !.out = <<makeNonce(call.a[1], call.b[1]),
                                     makeNonce(call.a[2], call.b[2])>>,
                          !.pc = "returned"]
  /\ UNCHANGED <<op, input, wire, tamper, dec, ver, arm, cli, ops>>

\* toHex(bytes, prefix)
ToHex ==
  /\ call.fn = "toHex"
  /\ call.pc = "start"
  /\ call' = [call EXCEPT !.out = toHex(call.a, call.b), !.pc = "encoded"]
  /\ UNCHANGED <<op, input, wire, tamper, dec, ver, arm, cli, ops>>

\* fromHex of the string that toHex returned
FromHexOfToHex ==
  /\ call.fn = "toHex"
  /\ call.pc = "encoded"
  /\ call' = [call EXCEPT !.back = fromHex(call.out), !.pc = "returned"]
  /\ UNCHANGED <<op, input, wire, tamper, dec, ver, arm, cli, ops>>

\* fromHex(hexString)
FromHex ==
  /\ call.fn = "fromHex"
  /\ call.pc = "start"
  /\ call' = [call EXCEPT !.out = fromHex(call.a), !.pc = "returned"]
  /\ UNCHANGED <<op, input, wire, tamper, dec, ver, arm, cli, ops>>

NextUtil ==
  \/ MakeNonce
  \/ ToHex
  \/ FromHexOfToHex
  \/ FromHex

SpecUtil == InitUtil /\ [][NextUtil]_vars

(***************************************************************************)
(* Calls of decrypt and verify in flight together: each call is suspended  *)
(* at every await of the next decoded value, where a turn of another call  *)
(* may run                                                                 *)
(***************************************************************************)
\* streams given to decrypt: messages of 0, CHUNK_SIZE + 1 and
\* 2 * CHUNK_SIZE bytes to the first key, and the last one with its two
\* data packets in each other's place
EncryptedStreams ==
  LET first == CHOOSE kp \in KeyPairs : kp.publicKey = KeyNumber(0)
      payloadKey == CHOOSE k \in PayloadKeys : TRUE
      ephemeralKeyPair == CHOOSE kp \in EphemeralKeyPairs : TRUE
      stream(n, sender) ==
        encrypt([i \in 1..n |-> i], sender, <<first.publicKey>>, payloadKey,
                ephemeralKeyPair).chunks
      swapped == [stream(2 * CHUNK_SIZE, first) EXCEPT
                    ![2] = stream(2 * CHUNK_SIZE, first)[3],
                    ![3] = stream(2 * CHUNK_SIZE, first)[2]]
  IN {Concat(stream(0, Null)), Concat(stream(CHUNK_SIZE + 1, first)),
      Concat(stream(2 * CHUNK_SIZE, first)), Concat(swapped)}

\* streams given to verify: messages of 0 and 2 * CHUNK_SIZE + 1 bytes signed
\* with the first key, and the second without its last packet but one
SignedStreams ==
  LET first == CHOOSE kp \in KeyPairs : kp.publicKey = KeyNumber(0)
      headerNonce == CHOOSE n \in HeaderNonces : TRUE
      stream(n) == sign([i \in 1..n |-> i], first, headerNonce)
      dropped == SubSeq(stream(2 * CHUNK_SIZE + 1), 1, 3)
                   \o <<stream(2 * CHUNK_SIZE + 1)[5]>>
  IN {Concat(stream(0)), Concat(stream(2 * CHUNK_SIZE + 1)), Concat(dropped)}

\* a call of decrypt or verify at its first await
DecryptCalls ==
  {[fn |-> "decrypt", data |-> data,
    st |-> [DecIdle EXCEPT !.pc = "AwaitHeader",
                           !.recipientKeyPair = recipientKeyPair]] :
     data \in EncryptedStreams \cup SignedStreams,
     recipientKeyPair \in
       {kp \in KeyPairs : kp.publicKey \in {KeyNumber(0), KeyNumber(1)}}}

VerifyCalls ==
  {[fn |-> "verify", data |-> data,
    st |-> [VerIdle EXCEPT !.pc = "AwaitHeader",
                           !.signerPublicKey = signerPublicKey]] :
     data \in SignedStreams,
     signerPublicKey \in {KeyNumber(0), KeyNumber(1)}}

InitTogether ==
  /\ op = "none"
  /\ input = Null
  /\ wire = <<>>
  /\ tamper = NoTamper
  /\ dec = DecIdle
  /\ ver = VerIdle
  /\ arm = ArmIdle
  /\ cli = CliIdle
  /\ call = CallIdle
  /\ \/ \E o1, o2 \in DecryptCalls : ops = <<o1, o2>>
     \/ \E o1 \in DecryptCalls, o2 \in VerifyCalls : ops = <<o1, o2>>
     \/ \E o1 \in VerifyCalls, o2 \in DecryptCalls : ops = <<o1, o2>>
     \/ \E o1, o2 \in VerifyCalls : ops = <<o1, o2>>

\* the locals of call i with the counter at module level, one for all calls
localsOf_sharedCounter(calls, i) ==
  [calls[i].st EXCEPT !.packetIndex = calls[1].st.packetIndex]

\* the locals of call i: payloadKey, packetIndex, decryptedChunks, chunks
\* and the generator are declared in the body of decrypt and verify, so each
\* call has its own
localsOf(calls, i) == calls[i].st

Running(o) == o.st.pc \in {"AwaitHeader", "AwaitChunks"}

\* call i of decrypt runs from one await to the next, or to its end
DecryptTurn(i) ==
  /\ i \in 1..Len(ops)
  /\ ops[i].fn = "decrypt"
  /\ Running(ops[i])
  /\ ops' = [ops EXCEPT ![i].st =
               IF ops[i].st.pc = "AwaitHeader"
               THEN decryptHeaderTurn(localsOf(ops, i), ops[i].data)
               ELSE decryptPacketTurn(localsOf(ops, i), ops[i].data)]
  /\ UNCHANGED <<op, input, wire, tamper, dec, ver, arm, cli, call>>

\* call i of verify runs from one await to the next, or to its end
VerifyTurn(i) ==
  /\ i \in 1..Len(ops)
  /\ ops[i].fn = "verify"
  /\ Running(ops[i])
  /\ ops' = [ops EXCEPT ![i].st =
               IF ops[i].st.pc = "AwaitHeader"
               THEN verifyHeaderTurn(localsOf(ops, i), ops[i].data)
               ELSE verifyPacketTurn(localsOf(ops, i), ops[i].data)]
  /\ UNCHANGED <<op, input, wire, tamper, dec, ver, arm, cli, call>>

NextTogether ==
  \/ \E i \in 1..2 : DecryptTurn(i)
  \/ \E i \in 1..2 : VerifyTurn(i)

SpecTogether == InitTogether /\ [][NextTogether]_vars

(***************************************************************************)
(* Properties                                                              *)
(***************************************************************************)
RecipientOfMessage ==
  dec.recipientKeyPair.publicKey \in Range(input.recipientPublicKeys)

DecryptEnded == dec.pc \in {"Done", "Failed"}
VerifyEnded == ver.pc \in {"Done", "Failed"}

\* the stream ends at the end of a top-level value
EndsAtBoundary == Len(Concat(topLevel(wire, 1, <<>>))) = Len(wire)

\* C1: round-trip encryption. A message written by encrypt with a sender,
\* read unmodified by decrypt with the key pair of one of its recipients,
\* yields the plaintext and the sender's public key; decrypt does not fail.
C1_RoundTripEncryption ==
  (/\ op = "enc" /\ tamper = NoTamper
   /\ DecryptEnded
   /\ input.keyPair # Null
   /\ RecipientOfMessage)
  => /\ dec.pc = "Done"
     /\ dec.result.plaintext = input.plaintext
     /\ dec.result.senderPublicKey = input.keyPair.publicKey

C1_Witness ==
  /\ op = "enc" /\ tamper = NoTamper
  /\ dec.pc = "Done"
  /\ input.keyPair # Null
  /\ Len(input.plaintext) > 2 * CHUNK_SIZE
  /\ Len(input.recipientPublicKeys) = 2
  /\ input.recipientPublicKeys[1] # input.recipientPublicKeys[2]
  /\ dec.recipientKeyPair.publicKey = input.recipientPublicKeys[2]
  /\ dec.result.plaintext = input.plaintext

\* C2: round-trip signing. A message written by sign, read unmodified by
\* verify with the signer's public key, yields the message, the signer's
\* public key and verified = true; verify does not fail.
C2_RoundTripSigning ==
  (/\ op = "sig" /\ tamper = NoTamper
   /\ VerifyEnded
   /\ ver.signerPublicKey = input.keyPair.publicKey)
  => /\ ver.pc = "Done"
     /\ ver.result.message = input.plaintext
     /\ ver.result.senderPublicKey = input.keyPair.publicKey
     /\ ver.result.verified = TRUE

C2_Witness ==
  /\ op = "sig" /\ tamper = NoTamper
  /\ ver.pc = "Done"
  /\ Len(input.plaintext) > 2 * CHUNK_SIZE
  /\ ver.result.message = input.plaintext
  /\ ver.result.verified = TRUE

\* C3: truncation detection in decrypt. When the stream ends after the
\* header and some data packets but before the terminator packet, decrypt
\* fails and returns no plaintext; decrypt returns only after it has opened
\* a packet with an empty chunk.
C3_TruncationDetectedByDecrypt ==
  /\ (/\ op = "enc" /\ tamper.kind = "trunc" /\ EndsAtBoundary
      /\ DecryptEnded)
     => (dec.pc = "Failed" /\ dec.result = Null)
  /\ (op = "enc" /\ dec.pc = "Done") => dec.sawEmpty

\* C4: truncation detection in verify. When the signed stream ends after
\* the header and some signed data packets but without the final packet,
\* verify fails and never returns verified = true.
C4_TruncationDetectedByVerify ==
  /\ (/\ op = "sig" /\ tamper.kind = "trunc" /\ EndsAtBoundary
      /\ VerifyEnded)
     => (ver.pc = "Failed" /\ ver.result = Null)
  /\ (op = "sig" /\ ver.pc = "Done") => ver.sawFinal

\* C6: header-hash binding for encryption. After one bit of the serialized
\* header of an encrypted message has been flipped, decrypt does not return
\* for any recipient.
C6_HeaderBindingEncryption ==
  (op = "enc" /\ tamper.kind = "header") => (dec.pc # "Done" /\ dec.result = Null)

\* C7: header-hash binding for signing. After one bit of the serialized
\* header of a signed message has been flipped, verify never returns
\* verified = true.
C7_HeaderBindingSigning ==
  (op = "sig" /\ tamper.kind = "header") => (ver.pc # "Done" /\ ver.result = Null)

\* C8: packet-order binding. After two payload packets other than the
\* terminator have changed places, decrypt by a recipient and verify with
\* the signer's key fail with the authentication error of the first
\* displaced packet index, having accepted only the packets before it, and
\* return nothing.
C8_PacketOrderBinding ==
  /\ (op = "enc" /\ tamper.kind = "swap")
     => /\ dec.pc # "Done" /\ dec.result = Null
        /\ dec.packetIndex <= tamper.i
        /\ (dec.pc = "Failed" /\ RecipientOfMessage)
           => dec.error = "Failed to decrypt payload chunk " \o ToString(tamper.i)
  /\ (op = "sig" /\ tamper.kind = "swap")
     => /\ ver.pc # "Done" /\ ver.result = Null
        /\ ver.packetIndex <= tamper.i
        /\ (ver.pc = "Failed" /\ ver.signerPublicKey = input.keyPair.publicKey)
           => ver.error = "Signature verification failed for packet "
                            \o ToString(tamper.i)

C8_Witness ==
  /\ op = "enc" /\ tamper.kind = "swap" /\ tamper.i = 1
  /\ dec.pc = "Failed"
  /\ RecipientOfMessage
  /\ dec.error = "Failed to decrypt payload chunk 1"
  /\ Len(dec.decryptedChunks) = 1

C8_WitnessVerify ==
  /\ op = "sig" /\ tamper.kind = "swap" /\ tamper.i = 1
  /\ ver.pc = "Failed"
  /\ ver.error = "Signature verification failed for packet 1"
  /\ Len(ver.chunks) = 1

\* C9: recipient isolation. decrypt of an unmodified message with a key pair
\* whose public key is not among the recipients fails with "Could not
\* decrypt payload key", opens no payload packet and returns nothing.
C9_RecipientIsolation ==
  (/\ op = "enc" /\ tamper = NoTamper
   /\ dec.pc \notin {"idle", "AwaitHeader"}
   /\ ~RecipientOfMessage)
  => /\ dec.pc = "Failed"
     /\ dec.error = "Could not decrypt payload key"
     /\ dec.opened = 0
     /\ dec.result = Null

C9_Witness ==
  /\ op = "enc" /\ tamper = NoTamper
  /\ dec.pc = "Failed"
  /\ ~RecipientOfMessage
  /\ Len(input.recipientPublicKeys) = 2
  /\ Len(input.plaintext) > 0
  /\ dec.error = "Could not decrypt payload key"

\* the header of a signed stream passes verify's checks of format, version
\* and mode and carries a signer key
SignedHeaderAccepted ==
  LET h == generator_next(wire, 1) IN
  /\ ~h.done /\ ~h.threw
  /\ IsArray(h.value)
  /\ At(h.value, 0) = VStr("saltpack")
  /\ versionMajorIs2(At(h.value, 1))
  /\ At(h.value, 2) = VInt(1)
  /\ At(h.value, 3).t = "bin"

HeaderSigner == At(generator_next(wire, 1).value, 3).b.m

\* C10: signer binding. When the signer public key of the header differs
\* from the signerPublicKey argument, in a byte or in length, verify fails
\* with the wrong-signer error and has checked no signature, whatever the
\* packets are.
C10_SignerBinding ==
  (/\ op = "sig"
   /\ ver.pc \notin {"idle", "AwaitHeader"}
   /\ SignedHeaderAccepted
   /\ HeaderSigner # ver.signerPublicKey)
  => /\ ver.pc = "Failed"
     /\ ver.error = "Sender public key in header does not match expected key"
     /\ ver.sigChecks = 0
     /\ ver.result = Null

C10_Witness ==
  /\ op = "sig"
  /\ ver.pc = "Failed"
  /\ SignedHeaderAccepted
  /\ Len(HeaderSigner) = Len(ver.signerPublicKey)
  /\ HeaderSigner[1] = ver.signerPublicKey[1]
  /\ HeaderSigner # ver.signerPublicKey
  /\ Len(input.plaintext) > 0
  /\ ver.error = "Sender public key in header does not match expected key"

\* C5: armor round-trip. For every byte string, the empty one included, and
\* both message types, dearmor of the output of armor returns the byte
\* string and does not throw.
C5_ArmorRoundTrip ==
  (arm.pc \in {"done", "threw"} /\ arm.mangle = "")
  => (arm.pc = "done" /\ arm.result = arm.data)

\* the sender decrypt is to report: the sender's public key, or undefined for
\* a message written without a sender
SenderOfMessage ==
  IF input.keyPair = Null THEN undefined ELSE input.keyPair.publicKey

\* C11: multi-recipient consistency. For a message written for two or more
\* recipients and read unmodified, decrypt succeeds for the key pair of every
\* recipient, whatever its position in the list, and returns the plaintext
\* given to encrypt and the sender given to encrypt: the same result for all
\* recipients.
C11_MultiRecipientConsistency ==
  (/\ op = "enc" /\ tamper = NoTamper
   /\ Len(input.recipientPublicKeys) >= 2
   /\ DecryptEnded
   /\ RecipientOfMessage)
  => /\ dec.pc = "Done"
     /\ dec.result = [plaintext |-> input.plaintext,
                      senderPublicKey |-> SenderOfMessage]

C11_Witness ==
  /\ op = "enc" /\ tamper = NoTamper
  /\ Len(input.recipientPublicKeys) = 2
  /\ input.recipientPublicKeys[1] # input.recipientPublicKeys[2]
  /\ dec.pc = "Done"
  /\ dec.recipientKeyPair.publicKey = input.recipientPublicKeys[2]
  /\ dec.boxOpens = 1
  /\ Len(input.plaintext) = MaxLen
  /\ dec.result = [plaintext |-> input.plaintext,
                   senderPublicKey |-> SenderOfMessage]

\* the sender secretbox of the header on the wire
senderSecretboxOfHeader == At(generator_next(wire, 1).value, 4)

C13_EmptyRecipientList ==
  (op = "enc" /\ Len(input.recipientPublicKeys) = 0)
  => /\ input.error = "At least one recipient public key is required"
     /\ wire = <<>>
     /\ tamper = NoTamper
     /\ dec.pc = "idle" /\ ver.pc = "idle"

C13_Witness ==
  /\ op = "enc"
  /\ Len(input.recipientPublicKeys) = 0
  /\ input.keyPair # Null
  /\ Len(input.plaintext) = MaxLen
  /\ input.error = "At least one recipient public key is required"
  /\ wire = <<>>

\* the top-level values that follow the header on the wire
PacketsOnWire == Tail(topLevel(wire, 1, <<>>))

\* the number of chunks of CHUNK_SIZE bytes a message of length len is cut
\* into: len / CHUNK_SIZE rounded up
NumberOfChunks(len) == (len + CHUNK_SIZE - 1) \div CHUNK_SIZE

\* chunk j (counted from 0) of a message
ChunkOf(message, j) ==
  SubSeq(message, j * CHUNK_SIZE + 1, Min((j + 1) * CHUNK_SIZE, Len(message)))

\* the token sequence is a 1-element array holding a secretbox
IsPayloadPacket(packet) ==
  /\ Len(packet) = 2
  /\ packet[1] = KArr(1, 0)
  /\ packet[2].t = "bin"
  /\ packet[2].b.c = "sbox"

\* C14: terminator discipline in encrypt. For a plaintext of length L the
\* output of encrypt is the header, then exactly ceil(L / CHUNK_SIZE) data
\* packets, each sealing the next non-empty chunk of the plaintext, then
\* exactly one packet sealing the empty chunk, which is the last packet.
C14_TerminatorDisciplineEncrypt ==
  (op = "enc" /\ tamper = NoTamper /\ input.error = "")
  => LET n == NumberOfChunks(Len(input.plaintext)) IN
     /\ Len(PacketsOnWire) = n + 1
     /\ \A j \in 1..(n + 1) : IsPayloadPacket(PacketsOnWire[j])
     /\ \A j \in 1..n :
          /\ PacketsOnWire[j][2].b.m = ChunkOf(input.plaintext, j - 1)
          /\ Len(PacketsOnWire[j][2].b.m) > 0
     /\ PacketsOnWire[n + 1][2].b.m = <<>>

C14_Witness ==
  /\ op = "enc" /\ tamper = NoTamper /\ input.error = ""
  /\ Len(input.plaintext) = 2 * CHUNK_SIZE
  /\ Len(PacketsOnWire) = 3
  /\ Len(PacketsOnWire[2][2].b.m) = CHUNK_SIZE
  /\ PacketsOnWire[3][2].b.m = <<>>

\* the token sequence is a 2-element array of a signature and a chunk
IsSignedPacket(packet) ==
  /\ Len(packet) = 3
  /\ packet[1] = KArr(2, 0)
  /\ packet[2].t = "bin" /\ packet[2].b.c = "sig"
  /\ packet[3].t = "bin" /\ packet[3].b.c = "raw"

\* the parts of the input the signature of a packet was made over: the
\* packet index, the final flag and the chunk, after the header nonce
SignedIndexOf(packet) == SubSeq(packet[2].b.m.rest, NonceLen + 1, NonceLen + 8)
SignedFinalFlagOf(packet) == packet[2].b.m.rest[NonceLen + 9]
SignedChunkOf(packet) ==
  SubSeq(packet[2].b.m.rest, NonceLen + 10, Len(packet[2].b.m.rest))

\* C15: terminator discipline in sign. The output of sign is the header,
\* then one packet per chunk of the message, each carrying a non-empty chunk
\* and signed with final flag 0, then exactly one last packet carrying the
\* empty chunk, signed with final flag 1 and with the number of data packets
\* as its packet index.
C15_TerminatorDisciplineSign ==
  (op = "sig" /\ tamper = NoTamper)
  => LET n == NumberOfChunks(Len(input.plaintext)) IN
     /\ Len(PacketsOnWire) = n + 1
     /\ \A j \in 1..(n + 1) :
          /\ IsSignedPacket(PacketsOnWire[j])
          /\ SignedChunkOf(PacketsOnWire[j]) = PacketsOnWire[j][3].b.m
     /\ \A j \in 1..n :
          /\ PacketsOnWire[j][3].b.m = ChunkOf(input.plaintext, j - 1)
          /\ Len(PacketsOnWire[j][3].b.m) > 0
          /\ SignedFinalFlagOf(PacketsOnWire[j]) = 0
     /\ PacketsOnWire[n + 1][3].b.m = <<>>
     /\ SignedFinalFlagOf(PacketsOnWire[n + 1]) = 1
     /\ SignedIndexOf(PacketsOnWire[n + 1]) = <<0, 0, 0, 0, 0, 0, 0, n>>

C15_Witness ==
  /\ op = "sig" /\ tamper = NoTamper
  /\ Len(input.plaintext) = 2 * CHUNK_SIZE + 1
  /\ Len(PacketsOnWire) = 4
  /\ SignedFinalFlagOf(PacketsOnWire[3]) = 0
  /\ Len(PacketsOnWire[3][3].b.m) = 1
  /\ SignedFinalFlagOf(PacketsOnWire[4]) = 1
  /\ PacketsOnWire[4][3].b.m = <<>>

\* the nonce a payload packet on the wire was sealed under
PayloadNonceOf(packet) == packet[2].b.n

\* C16: nonce uniqueness. The j-th payload packet of an encrypt output,
\* counted from 0 and the terminator included, is sealed under the 24-byte
\* nonce "saltpack_ploadsb" followed by j as 8 big-endian bytes, so that no
\* two packets of a message share a nonce.
C16_NonceUniqueness ==
  (op = "enc" /\ tamper = NoTamper /\ input.error = "")
  => /\ \A j \in 1..Len(PacketsOnWire) :
          /\ IsPayloadPacket(PacketsOnWire[j])
          /\ PayloadNonceOf(PacketsOnWire[j])
               = NONCE_PREFIX_PAYLOAD \o <<0, 0, 0, 0, 0, 0, 0, j - 1>>
     /\ \A j, k \in 1..Len(PacketsOnWire) :
          j # k => PayloadNonceOf(PacketsOnWire[j]) # PayloadNonceOf(PacketsOnWire[k])

C16_Witness ==
  /\ op = "enc" /\ tamper = NoTamper /\ input.error = ""
  /\ Len(PacketsOnWire) = 4
  /\ PayloadNonceOf(PacketsOnWire[1])[24] = 0
  /\ PayloadNonceOf(PacketsOnWire[3])[24] = 2
  /\ PayloadNonceOf(PacketsOnWire[4])[24] = 3
  /\ PacketsOnWire[4][2].b.m = <<>>

\* C17: sender secretbox nonce. The nonce under which encrypt seals the
\* sender secretbox, and under which decrypt opens it, is the 24 bytes of
\* the ASCII string "saltpack_sender_key_sbox", with no counter in it.
C17_SenderSecretboxNonce ==
  (op = "enc" /\ tamper = NoTamper /\ input.error = "")
  => LET saltpack_sender_key_sbox ==
           <<115, 97, 108, 116, 112, 97, 99, 107, 95, 115, 101, 110, 100, 101,
             114, 95, 107, 101, 121, 95, 115, 98, 111, 120>>
     IN /\ senderSecretboxOfHeader.b.n = saltpack_sender_key_sbox
        /\ makeNonce(NONCE_PREFIX_SENDER, 0) = saltpack_sender_key_sbox

\* the first top-level value of the stream is an array of exactly count
\* elements whose first element is "saltpack", whose version has major
\* number 2 and whose mode is mode
HeaderWellFormed(count, mode) ==
  LET h == generator_next(wire, 1) IN
  /\ ~h.done /\ ~h.threw
  /\ IsArray(h.value)
  /\ Len(h.value.e) = count
  /\ At(h.value, 0) = VStr("saltpack")
  /\ versionMajorIs2(At(h.value, 1))
  /\ At(h.value, 2) = VInt(mode)

\* C18: header validation in decrypt. Unless the first top-level value is
\* an array of exactly 6 elements that starts with "saltpack", has major
\* version 2 and mode 0, decrypt opens no recipient box, no sender secretbox
\* and no payload packet, and does not return.
C18_HeaderValidationDecrypt ==
  (/\ op \in {"enc", "sig"}
   /\ dec.pc \notin {"idle", "AwaitHeader"}
   /\ ~HeaderWellFormed(6, 0))
  => /\ dec.pc = "Failed"
     /\ dec.boxOpens = 0 /\ dec.senderOpens = 0 /\ dec.opened = 0
     /\ dec.result = Null

\* C19: header validation in verify. Unless the first top-level value is an
\* array of exactly 5 elements that starts with "saltpack", has major
\* version 2 and mode 1, verify checks no signature and does not return.
C19_HeaderValidationVerify ==
  (/\ op \in {"enc", "sig"}
   /\ ver.pc \notin {"idle", "AwaitHeader"}
   /\ ~HeaderWellFormed(5, 1))
  => /\ ver.pc # "Done"
     /\ ver.sigChecks = 0
     /\ ver.result = Null

\* C20: payload packet shape in decrypt. When a value that is not a
\* 1-element array (a non-array, an empty array, an array of 2 elements)
\* stands between the header and the terminator packet, decrypt by a
\* recipient fails and returns no plaintext.
C20_PacketShapeDecrypt ==
  (/\ op = "enc" /\ tamper.kind = "insert"
   /\ tamper.i < Len(PacketsOnWire)
   /\ DecryptEnded
   /\ RecipientOfMessage)
  => /\ dec.pc = "Failed"
     /\ dec.result = Null

\* C21: hidden recipients. When the public-key slot of a recipient entry is
\* nil, decrypt tries the box of that entry with the counter of its index
\* and goes on to the next entry when it does not open: every recipient of
\* the message, hidden or not, obtains the plaintext.
C21_HiddenRecipients ==
  (/\ op = "enc" /\ tamper.kind = "hide"
   /\ DecryptEnded
   /\ RecipientOfMessage)
  => /\ dec.pc = "Done"
     /\ dec.result.plaintext = input.plaintext

\* the last payload secretbox decrypt tried did not open: one more packet
\* was tried than chunks were kept, and the call threw
PayloadOpenFailed ==
  dec.pc = "Failed" /\ dec.opened = Len(dec.decryptedChunks) + 1

\* C22: fatal errors in decrypt. When the secretbox of payload packet j does
\* not open, decrypt throws an error that names j; whenever decrypt throws
\* (bad header, not a recipient, sender secretbox, payload packet) it
\* returns nothing, the chunks opened before the failure included.
C22_FatalErrorsDecrypt ==
  /\ PayloadOpenFailed
     => dec.error = "Failed to decrypt payload chunk "
                      \o ToString(Len(dec.decryptedChunks))
  /\ dec.pc = "Failed" => (dec.result = Null /\ dec.error # "")
  /\ dec.pc # "Done" => dec.result = Null

C22_Witness ==
  /\ op = "enc"
  /\ PayloadOpenFailed
  /\ Len(dec.decryptedChunks) = 1
  /\ dec.decryptedChunks[1] = ChunkOf(input.plaintext, 0)
  /\ dec.error = "Failed to decrypt payload chunk 1"
  /\ dec.result = Null

\* a value was put on the stream behind the last packet of the message
TrailingValue ==
  tamper.kind \in {"insert", "dup"} /\ tamper.i = Len(PacketsOnWire)

\* the position of the generator once the last packet of the message has
\* been read and the trailing value has not
PosBeforeTrailingValue ==
  Len(wire) - Len(PacketsOnWire[Len(PacketsOnWire)]) + 1

\* C23: Done state in decrypt. Once decrypt has opened a packet with an
\* empty chunk it returns without reading further: a value that follows the
\* terminator on the stream, malformed or a well-formed packet, is not read
\* and changes neither the plaintext returned nor the success of the call.
C23_DoneStateDecrypt ==
  /\ dec.sawEmpty => dec.pc = "Done"
  /\ (/\ op = "enc" /\ TrailingValue
      /\ DecryptEnded
      /\ RecipientOfMessage)
     => /\ dec.pc = "Done"
        /\ dec.result = [plaintext |-> input.plaintext,
                         senderPublicKey |-> SenderOfMessage]
        /\ dec.pos = PosBeforeTrailingValue

C23_Witness ==
  /\ op = "enc" /\ TrailingValue
  /\ tamper.kind = "dup" /\ tamper.j = 0
  /\ dec.pc = "Done"
  /\ RecipientOfMessage
  /\ Len(input.plaintext) > CHUNK_SIZE
  /\ dec.result.plaintext = input.plaintext
  /\ dec.pos = PosBeforeTrailingValue
  /\ dec.pos <= Len(wire)

C23_WitnessMalformed ==
  /\ op = "enc" /\ TrailingValue
  /\ tamper.kind = "insert"
  /\ dec.pc = "Done"
  /\ dec.result.plaintext = input.plaintext
  /\ dec.pos <= Len(wire)

\* C24: Done state in verify. Once verify has accepted the packet with the
\* empty chunk it reads no further value: with a value behind the final
\* packet of a signed message, verify with the signer's key does not fail,
\* returns the message, and has not read the value.
C24_DoneStateVerify ==
  (/\ op = "sig" /\ TrailingValue
   /\ VerifyEnded
   /\ ver.signerPublicKey = input.keyPair.publicKey)
  => /\ ver.pc = "Done"
     /\ ver.result.message = input.plaintext
     /\ ver.pos = PosBeforeTrailingValue

\* the string, trimmed, has at least 3 non-empty lines, its first line
\* starts with BEGIN SALTPACK, its last with END SALTPACK, and the lines
\* between them, concatenated, are accepted by the base64 decoder
ArmorWellFormed(str) ==
  LET lines == splitLines(trim(str))
      nonEmpty == {k \in 1..Len(lines) : Len(lines[k]) > 0}
  IN /\ Cardinality(nonEmpty) >= 3
     /\ startsWith(lines[1], BEGIN_SALTPACK)
     /\ startsWith(lines[Len(lines)], END_SALTPACK)
     /\ decodeBase64(Concat(SubSeq(lines, 2, Len(lines) - 1))).ok

\* C25: dearmor validation. dearmor throws and returns no bytes for every
\* string that, trimmed, does not have at least 3 non-empty lines, or whose
\* first line does not start with BEGIN SALTPACK, or whose last line does
\* not start with END SALTPACK, or whose body is not base64.
C25_DearmorValidation ==
  (arm.pc \in {"done", "threw"} /\ ~ArmorWellFormed(arm.armored))
  => /\ arm.pc = "threw"
     /\ arm.error # ""
     /\ arm.result = <<>>

\* the list positions (counted from 0) at which the caller of decrypt is a
\* recipient of the message as encrypt wrote it
EntriesOfRecipient ==
  {k \in 0..(Len(input.recipientPublicKeys) - 1) :
     input.recipientPublicKeys[k + 1] = dec.recipientKeyPair.publicKey}

\* C29 as stated: recipient order binding. After recipient entries of the
\* header have been reordered, no recipient of the list recovers the payload
\* key: decrypt fails with "Could not decrypt payload key".
C29_RecipientOrderBinding ==
  (/\ op = "enc" /\ tamper.kind = "reorder"
   /\ DecryptEnded
   /\ RecipientOfMessage)
  => /\ dec.pc = "Failed"
     /\ dec.error = "Could not decrypt payload key"

\* C29 amended: the box of list position i opens under counter i only.
\* After two recipient entries have changed places, a recipient all of
\* whose entries were moved cannot recover the payload key, and a recipient
\* with an entry left at its position still decrypts the message.
C29_MovedEntriesInvalid ==
  (/\ op = "enc" /\ tamper.kind = "reorder"
   /\ DecryptEnded
   /\ RecipientOfMessage)
  => IF EntriesOfRecipient \subseteq {tamper.i, tamper.j}
     THEN /\ dec.pc = "Failed"
          /\ dec.error = "Could not decrypt payload key"
          /\ dec.boxOpens = Cardinality(EntriesOfRecipient)
          /\ dec.result = Null
     ELSE /\ dec.pc = "Done"
          /\ dec.result.plaintext = input.plaintext

C29_Witness ==
  /\ op = "enc" /\ tamper.kind = "reorder"
  /\ tamper.i = 0 /\ tamper.j = 1
  /\ dec.pc = "Failed"
  /\ dec.recipientKeyPair.publicKey = input.recipientPublicKeys[1]
  /\ input.recipientPublicKeys[1] # input.recipientPublicKeys[2]
  /\ dec.boxOpens = 1
  /\ dec.error = "Could not decrypt payload key"

\* a recipient entry of the header on the wire opens for the caller of
\* decrypt under the counter of its position: a payload key is adopted
PayloadKeyAdopted ==
  LET h == generator_next(wire, 1).value
  IN findPayloadKey(At(h, 5), 0, dec.recipientKeyPair, At(h, 3), 0).found

\* the steps decrypt has taken so far respect the order of the states
DecryptOrder ==
  /\ dec.senderOpens > 0 => (dec.boxOpens > 0 /\ PayloadKeyAdopted)
  /\ dec.opened > 0
       => /\ dec.senderOpens = 1
          /\ dec.error # "Failed to decrypt sender public key"
  /\ dec.pc = "AwaitHeader"
       => (dec.boxOpens = 0 /\ dec.senderOpens = 0 /\ dec.opened = 0)
  /\ dec.pc = "AwaitChunks" => dec.senderOpens = 1
  /\ dec.pc = "Failed" => dec.result = Null

\* C30: decryption state order. No recipient box is opened unless the
\* header has passed validation (an array of 6 elements, "saltpack", major
\* version 2, mode 0), the sender secretbox is opened only after a payload
\* key has been adopted, no payload packet is opened before the sender
\* secretbox has opened, and a failed decrypt returns no result.
C30_DecryptionStateOrder ==
  /\ (op \in {"enc", "sig"} /\ dec.boxOpens > 0) => HeaderWellFormed(6, 0)
  /\ op \in {"enc", "sig"} => DecryptOrder

\* the order of the steps after the validation the code performs, and
\* Failed as a state decrypt never leaves
C30_OrderAfterValidation == op \in {"enc", "sig"} => DecryptOrder

C30_FailedIsFinal == [][dec.pc = "Failed" => dec' = dec]_vars

\* a line of the text on a standard stream contains the string
Includes(out, needle) ==
  \E k \in 1..Len(out.lines) :
    \E at \in 0..(Len(out.lines[k]) - Len(needle)) :
      SubSeq(out.lines[k], at + 1, at + Len(needle)) = needle

\* the decrypt that reads what an encrypt given --bin for these recipients
\* has written, with the secret key of one of them
DecryptOfBinOutput ==
  /\ cli.argv.command = "decrypt"
  /\ cli.piped.command = "encrypt" /\ cli.piped.bin
  /\ Len(cli.argv.key) > 0
  /\ \E kp \in CliKeyPairs :
       /\ cli.argv.key[1] = toHex(kp.secretKey, SK_0X)
       /\ kp.publicKey \in Range(input.recipientPublicKeys)

\* C26: CLI binary mode. encrypt invoked with --bin writes the binary
\* message: its standard output does not contain "BEGIN SALTPACK"; decrypt
\* of that output with the matching secret key exits with code 0 and prints
\* the original plaintext.
C26_CliBinaryMode ==
  cli.pc = "exited"
  => /\ (cli.argv.command = "encrypt" /\ cli.argv.bin /\ cli.code = 0)
          => /\ cli.stdout.kind = "binary"
             /\ ~Includes(cli.stdout, BEGIN_SALTPACK)
     /\ DecryptOfBinOutput
          => /\ cli.code = 0
             /\ cli.stdout = Out("bytes", <<>>, input.plaintext)

\* the decrypt half of C26 on its own
C26_DecryptOfBinOutput ==
  (cli.pc = "exited" /\ DecryptOfBinOutput)
  => /\ cli.code = 0
     /\ cli.stdout = Out("bytes", <<>>, input.plaintext)

\* the environment variable a subcommand is documented to fall back to
EnvNameOf(command) ==
  CASE command = "encrypt" -> "SALTPACK_ENCRYPT_PK"
    [] command = "decrypt" -> "SALTPACK_DECRYPT_SK"
    [] command = "sign" -> "SALTPACK_SIGN_SK"
    [] command = "verify" -> "SALTPACK_VERIFY_PK"

\* the invocation has ended with the report of a missing key
MissingKeyReported ==
  /\ cli.pc = "exited" /\ cli.code = 1
  /\ cli.stderr[1] \in
       {"Error: At least one recipient public key is required (-k).",
        "Error: Secret key is required (-k).",
        "Error: Sender public key is required (-k)."}

\* C27: CLI environment fallback. Without -k a subcommand takes its key
\* from the environment variable of the matching name; a missing key is
\* reported only when the flag and the variable are both absent.
C27_CliEnvironmentFallback ==
  (/\ cli.pc = "exited"
   /\ cli.argv.command \in {"encrypt", "decrypt", "sign", "verify"}
   /\ ~cli.argv.help)
  => (MissingKeyReported
        <=> /\ Len(cli.argv.key) = 0
            /\ Len(cli.env[EnvNameOf(cli.argv.command)]) = 0)

\* the invocation is one the command line must refuse or cannot carry out:
\* no key, an unknown command, a key that is no hex string or of a wrong
\* size, an error thrown by the library
KeyUnusable ==
  LET command == cli.argv.command
      used == IF command = "encrypt" \/ Len(cli.argv.key) = 0
              THEN cli.argv.key
              ELSE <<cli.argv.key[1]>>
  IN /\ command \in {"encrypt", "decrypt", "sign", "verify"}
     /\ \/ Len(used) = 0
        \/ \E i \in 1..Len(used) : fromHex(used[i]).threw
        \/ /\ command # "verify"
           /\ \E i \in 1..Len(used) : Len(fromHex(used[i]).bytes) # KeyLen

InvocationFails ==
  /\ ~cli.argv.help
  /\ \/ cli.argv.command \notin
          {"", "encrypt", "decrypt", "sign", "verify", "keygen"}
     \/ KeyUnusable
     \/ cli.argv.command = "decrypt" /\ dec.pc = "Failed"
     \/ cli.argv.command = "verify" /\ ver.pc = "Failed"

\* a result is on standard output: keys, a message, or recovered bytes
ResultWritten == cli.stdout.kind \in {"keys", "bytes", "binary", "armored"}

\* C28: CLI exit status. An invocation that succeeds ends with exit code 0;
\* one that fails (missing key, unknown command, unparsable hex key, an
\* error of the library) ends with exit code 1 after one line on standard
\* error and without a result on standard output.
C28_CliExitStatus ==
  cli.pc = "exited"
  => IF InvocationFails
     THEN /\ cli.code = 1
          /\ Len(cli.stderr) = 1
          /\ ~ResultWritten
     ELSE /\ cli.code = 0
          /\ cli.stderr = <<>>

\* the exit codes alone, and the results
C28_ExitCodes ==
  cli.pc = "exited"
  => /\ cli.code = (IF InvocationFails THEN 1 ELSE 0)
     /\ cli.code = 1 => (~ResultWritten /\ Len(cli.stderr) >= 1)
     /\ cli.code = 0 => cli.stderr = <<>>

\* the bytes of the header as they stand on the wire
HeaderBytesOnWire == topLevel(wire, 1, <<>>)[1]

\* C31: verify hashes the header bytes as they appear in the stream. A
\* message whose header bytes are a valid but not the shortest encoding of
\* the header value, and whose packets were signed over the hash of those
\* bytes, verifies under the signer's key and gives back the message.
C31_HeaderHashOverInputBytes ==
  /\ (op = "sig" /\ ver.pc \in {"AwaitChunks", "Done"})
       => ver.headerHash = hash(HeaderBytesOnWire)
  /\ (/\ op = "sig" /\ tamper.kind = "encoding"
      /\ VerifyEnded
      /\ ver.signerPublicKey = input.keyPair.publicKey)
     => /\ ver.pc = "Done"
        /\ ver.result.message = input.plaintext

\* C32: in sign the header is serialized once. The bytes whose hash stands
\* in the signing input of every packet are the header bytes at the start
\* of the output, and every packet is signed over that one hash and the one
\* header nonce of the header.
C32_HeaderSerializedOnce ==
  (op = "sig" /\ tamper = NoTamper)
  => /\ SubSeq(wire, 1, Len(HeaderBytesOnWire)) = HeaderBytesOnWire
     /\ HeaderBytesOnWire[1] = KArr(5, 0)
     /\ \A j \in 1..Len(PacketsOnWire) :
          /\ IsSignedPacket(PacketsOnWire[j])
          /\ PacketsOnWire[j][2].b.m.hh = hash(HeaderBytesOnWire)
          /\ SubSeq(PacketsOnWire[j][2].b.m.rest, 1, NonceLen)
               = HeaderBytesOnWire[8].b.m

C32_Witness ==
  /\ op = "sig" /\ tamper = NoTamper
  /\ Len(input.plaintext) > CHUNK_SIZE
  /\ Len(PacketsOnWire) >= 3
  /\ PacketsOnWire[1][2].b.m.hh = hash(HeaderBytesOnWire)
  /\ PacketsOnWire[3][2].b.m.hh = PacketsOnWire[1][2].b.m.hh
  /\ HeaderBytesOnWire[8].b.m \in HeaderNonces

\* C33: signing input agreement. For the packet of index j (from 0) of a
\* message written by sign, the signing input is header hash, header nonce,
\* be64(j), final flag, chunk, and the input verify rebuilds for the j-th
\* packet, with the final flag inferred from the empty chunk, is the same
\* bytes; so verify accepts every packet of the message.
C33_SigningInputAgreement ==
  /\ (op = "sig" /\ tamper = NoTamper)
       => \A j \in 1..Len(PacketsOnWire) :
            LET packet == PacketsOnWire[j]
                chunk == packet[3].b.m
                headerNonce == HeaderBytesOnWire[8].b.m
                headerHash == hash(HeaderBytesOnWire)
            IN /\ packet[2].b.m
                    = verifySignInput(headerHash, headerNonce, j - 1, chunk)
               /\ packet[2].b.m.rest
                    = headerNonce \o be64(j - 1)
                        \o <<IF chunk = <<>> THEN 1 ELSE 0>> \o chunk
  /\ (/\ op = "sig" /\ tamper = NoTamper
      /\ ver.pc = "Done"
      /\ ver.signerPublicKey = input.keyPair.publicKey)
     => ver.sigChecks = Len(PacketsOnWire)

C33_Witness ==
  /\ op = "sig" /\ tamper = NoTamper
  /\ Len(input.plaintext) = 2 * CHUNK_SIZE + 1
  /\ ver.pc = "Done" /\ ver.sigChecks = 4
  /\ PacketsOnWire[3][2].b.m
       = verifySignInput(ver.headerHash, ver.headerNonce.b.m, 2,
                         ChunkOf(input.plaintext, 2))
  /\ SignedFinalFlagOf(PacketsOnWire[4]) = 1

\* the unsigned integer that a byte string is in big endian
RECURSIVE BigEndianValue(_)
BigEndianValue(bytes) ==
  IF Len(bytes) = 0 THEN 0
  ELSE 256 * BigEndianValue(SubSeq(bytes, 1, Len(bytes) - 1))
         + bytes[Len(bytes)]

\* C34: nonce layout. makeNonce(prefix, n) returns 24 bytes: bytes 0..15 are
\* the 16-byte prefix, bytes 16..23 are n as an unsigned big-endian integer;
\* two calls with one prefix and different counters, or with different
\* prefixes, return different nonces.
C34_NonceLayout ==
  (call.fn = "makeNonce" /\ call.pc = "returned") =>
    /\ \A k \in 1..2 :
         /\ Len(call.out[k]) = 24
         /\ SubSeq(call.out[k], 1, 16) = call.a[k]
         /\ BigEndianValue(SubSeq(call.out[k], 17, 24)) = call.b[k]
    /\ (call.a[1] = call.a[2] /\ call.b[1] # call.b[2])
         => call.out[1] # call.out[2]
    /\ call.a[1] # call.a[2] => call.out[1] # call.out[2]

C34_Witness ==
  /\ call.fn = "makeNonce"
  /\ call.pc = "returned"
  /\ call.a[1] = NONCE_PREFIX_SENDER
  /\ call.a[2] = [NONCE_PREFIX_SENDER EXCEPT ![16] = 96]
  /\ call.b = <<65536, 257>>
  /\ SubSeq(call.out[1], 17, 24) = <<0, 0, 0, 0, 0, 1, 0, 0>>
  /\ SubSeq(call.out[2], 17, 24) = <<0, 0, 0, 0, 0, 0, 1, 1>>
  /\ call.out[1][16] = 95
  /\ call.out[2][16] = 96

\* C36: hex round trip. For every byte string b and every prefix p among
\* "", "0x", "pk_0x" and "sk_0x", fromHex(toHex(b, p)) returns b; so the
\* keys that keygen prints with pk_0x and sk_0x parse back to the keys.
C36_HexRoundTrip ==
  (call.fn = "toHex" /\ call.pc = "returned") =>
    /\ ~call.back.threw
    /\ call.back.bytes = call.a

C36_Witness ==
  /\ call.fn = "toHex"
  /\ call.pc = "returned"
  /\ call.a = <<9, 171>>
  /\ call.b = PK_0X
  /\ call.out = <<"p", "k", "_", "0", "x", "0", "9", "a", "b">>
  /\ call.back.bytes = <<9, 171>>

\* a string without its one optional prefix pk_0x, sk_0x or 0x
WithoutHexPrefix(hexString) ==
  IF startsWith(hexString, PK_0X) \/ startsWith(hexString, SK_0X)
  THEN SubSeq(hexString, 6, Len(hexString))
  ELSE IF startsWith(hexString, ZERO_X)
  THEN SubSeq(hexString, 3, Len(hexString))
  ELSE hexString

\* C40: fromHex validation. After the removal of one optional prefix,
\* fromHex throws "Invalid hex string" for every string of odd length and for
\* every string with a character that is no hex digit, at any position; it
\* returns bytes only for an even number of hex digits.
C40_FromHexValidation ==
  (call.fn = "fromHex" /\ call.pc = "returned") =>
    LET cleanHex == WithoutHexPrefix(call.a)
    IN (\/ Len(cleanHex) % 2 # 0
        \/ \E i \in 1..Len(cleanHex) : ~IsHexDigit(cleanHex[i]))
         => call.out.threw

\* "BEGIN" or "END", "SALTPACK <T> MESSAGE."
ArmorLine(first, messageType) ==
  first \o <<" ", "S", "A", "L", "T", "P", "A", "C", "K", " ">>
    \o (IF messageType = "ENCRYPTED"
        THEN <<"E", "N", "C", "R", "Y", "P", "T", "E", "D">>
        ELSE <<"S", "I", "G", "N", "E", "D">>)
    \o <<" ", "M", "E", "S", "S", "A", "G", "E", ".">>

\* C35: armor layout. armor(B, T) is the line BEGIN SALTPACK <T> MESSAGE.,
\* the base64 encoding of B in consecutive segments (all but the last of 43
\* characters, the last of 1 to 43), and the line END SALTPACK <T> MESSAGE.,
\* joined by single line feeds, with no line feed at the end.
C35_ArmorLayout ==
  (arm.pc = "armored" /\ arm.mangle = "") =>
    LET lines == splitLines(arm.armored)
        n == Len(lines)
    IN /\ n >= 2
       /\ lines[1] = ArmorLine(<<"B", "E", "G", "I", "N">>, arm.messageType)
       /\ lines[n] = ArmorLine(<<"E", "N", "D">>, arm.messageType)
       /\ Concat(SubSeq(lines, 2, n - 1)) = encodeBase64(arm.data)
       /\ \A k \in 2..(n - 1) :
            /\ k < n - 1 => Len(lines[k]) = 43
            /\ Len(lines[k]) \in 1..43
       /\ Len(arm.armored) = Len(lines[1]) + Len(lines[n])
                               + Len(encodeBase64(arm.data)) + (n - 1)
       /\ arm.armored[Len(arm.armored)] = "."

C35_Witness ==
  /\ arm.pc = "armored"
  /\ arm.mangle = ""
  /\ arm.messageType = "SIGNED"
  /\ Len(arm.data) = 64
  /\ LET lines == splitLines(arm.armored)
     IN /\ Len(lines) = 5
        /\ Len(lines[2]) = 43
        /\ Len(lines[3]) = 43
        /\ Len(lines[4]) = 2
        /\ lines[4][2] = "="

\* the chunk that packet j of the written stream carries: the plaintext of
\* the secretbox of a payload packet, the second element of a signed packet
ChunkOnWire(j) ==
  IF op = "enc" THEN PacketsOnWire[j][2].b.m ELSE PacketsOnWire[j][3].b.m

\* C39: chunking invariant of encrypt and sign. The input of length L is cut
\* in order into data chunks of 1 to CHUNK_SIZE bytes, all but possibly the
\* last of exactly CHUNK_SIZE bytes, whose concatenation is the input; there
\* are ceil(L / CHUNK_SIZE) of them, one per iteration of the loop, and the
\* only empty chunk of the message is that of the last packet.
C39_ChunkingInvariant ==
  (op \in {"enc", "sig"} /\ tamper = NoTamper /\ input.error = "")
  => LET n == Len(PacketsOnWire) - 1
         L == Len(input.plaintext)
     IN /\ n >= 0
        /\ \A j \in 1..n :
             /\ Len(ChunkOnWire(j)) \in 1..CHUNK_SIZE
             /\ j < n => Len(ChunkOnWire(j)) = CHUNK_SIZE
        /\ Concat([j \in 1..n |-> ChunkOnWire(j)]) = input.plaintext
        /\ n * CHUNK_SIZE >= L
        /\ n > 0 => (n - 1) * CHUNK_SIZE < L
        /\ ChunkOnWire(n + 1) = <<>>

C39_Witness ==
  /\ op = "enc" /\ tamper = NoTamper /\ input.error = ""
  /\ Len(input.plaintext) = 2 * CHUNK_SIZE + 1
  /\ Len(PacketsOnWire) = 4
  /\ Len(ChunkOnWire(2)) = CHUNK_SIZE
  /\ Len(ChunkOnWire(3)) = 1
  /\ ChunkOnWire(4) = <<>>
  /\ ChunkOnWire(1) \o ChunkOnWire(2) \o ChunkOnWire(3) = input.plaintext

\* the values after the header were dropped, repeated, reordered or mixed
\* with inserted values
PacketsRearranged ==
  \/ tamper.kind \in {"swap", "insert", "dup", "rearrange"}
  \/ tamper.kind = "trunc" /\ EndsAtBoundary

\* C38: authenticated-prefix safety of decrypt. On a stream obtained from a
\* message of encrypt by dropping, repeating, reordering or inserting values
\* after the unchanged header, the chunks that decrypt keeps are at every
\* moment the first m chunks of the plaintext, in order, each taken from the
\* packet sealed with its own index as counter; so the plaintext that a
\* recipient is returned is the concatenation of the first m chunks.
C38_AuthenticatedPrefix ==
  (op = "enc" /\ PacketsRearranged) =>
    LET m == Len(dec.decryptedChunks) IN
    /\ m <= NumberOfChunks(Len(input.plaintext))
    /\ Len(dec.accepted) = m
    /\ dec.packetIndex = m
    /\ \A j \in 1..m :
         /\ dec.decryptedChunks[j] = ChunkOf(input.plaintext, j - 1)
         /\ dec.accepted[j].n = makeNonce(NONCE_PREFIX_PAYLOAD, j - 1)
         /\ dec.accepted[j].m = ChunkOf(input.plaintext, j - 1)
    /\ dec.pc = "Done" =>
         dec.result.plaintext =
           SubSeq(input.plaintext, 1, Min(m * CHUNK_SIZE, Len(input.plaintext)))

\* the first two packets with a value that is no packet between them, the
\* rest dropped: decrypt returns the first two chunks of a longer plaintext
C38_Witness ==
  /\ op = "enc"
  /\ tamper.kind = "rearrange"
  /\ Len(input.plaintext) > 2 * CHUNK_SIZE
  /\ Len(PacketsOnWire) = 3
  /\ PacketsOnWire[2] = encode(VInt(0))
  /\ dec.pc = "Done"
  /\ Len(dec.accepted) = 2
  /\ dec.accepted[2] = PacketsOnWire[3][2].b
  /\ dec.result.plaintext = SubSeq(input.plaintext, 1, 2 * CHUNK_SIZE)

\* the locals of call o after k turns when it runs alone, from its first
\* await on
RECURSIVE Alone(_, _)
Alone(o, k) ==
  LET start == IF o.fn = "decrypt"
               THEN [DecIdle EXCEPT !.pc = "AwaitHeader",
                                    !.recipientKeyPair = o.st.recipientKeyPair]
               ELSE [VerIdle EXCEPT !.pc = "AwaitHeader",
                                    !.signerPublicKey = o.st.signerPublicKey]
      before == Alone(o, k - 1)
  IN IF k = 0 THEN start
     ELSE IF before.pc \notin {"AwaitHeader", "AwaitChunks"} THEN before
     ELSE IF o.fn = "decrypt"
     THEN IF before.pc = "AwaitHeader"
          THEN decryptHeaderTurn(before, o.data)
          ELSE decryptPacketTurn(before, o.data)
     ELSE IF before.pc = "AwaitHeader"
          THEN verifyHeaderTurn(before, o.data)
          ELSE verifyPacketTurn(before, o.data)

====
